---------------------------- MODULE Spec2Model ----------------------------
(***************************************************************************)
(* A model of @ouroboros/tools (src/index.ts): the random string           *)
(* generator, the query-string parser and the find/clone/combine family    *)
(* working on a heap of arrays and objects.                                *)
(*                                                                         *)
(* JavaScript strings are sequences of one-character strings, so that      *)
(* charAt, includes, regular expressions and percent-decoding work on      *)
(* characters.                                                             *)
(***************************************************************************)
EXTENDS Integers, Sequences, FiniteSets, TLC

VARIABLES
    \* random(length, sets, duplicates)
    length,         \* argument: the requested length
    sets,           \* argument: a list of set names, a string, or another value
    duplicates,     \* argument: whether a character may repeat
    chars,          \* local: the working alphabet
    text,           \* local: the string generated so far
    iter,           \* parity of the number of loop iterations run
    pcRandom,       \* "start", "loop", "done" (returned text) or "threw"
    \* parseQuery(query)
    lastIndex,      \* _reQueryPart.lastIndex, the state of the global regex
    query,          \* argument of the latest call
    queryOut,       \* outcome of the latest call: none, threw or returned
    \* the functions on arrays and objects
    heap,           \* the arrays and objects, by address
    roots,          \* the caller's variables, by name
    call            \* the latest call: function, arguments, return value

randomVars == <<length, sets, duplicates, chars, text, iter, pcRandom>>
queryVars == <<lastIndex, query, queryOut>>

heapVars == <<heap, roots, call>>

vars == <<randomVars, queryVars, heapVars>>

\* The variables of the other functions, which a step of one leaves alone
notRandom == <<queryVars, heapVars>>
notQuery == <<randomVars, heapVars>>
notHeap == <<randomVars, queryVars>>

\* No call of random is under way
IdleRandom ==
    /\ length = 0
    /\ sets = [t |-> "undefined"]
    /\ duplicates = TRUE
    /\ chars = <<>>
    /\ text = <<>>
    /\ iter = 0
    /\ pcRandom = "idle"

\* No call of parseQuery was made
IdleQuery ==
    /\ lastIndex = 0
    /\ query = <<>>
    /\ queryOut = [t |-> "none"]

\* No array or object exists
IdleHeap ==
    /\ heap = <<>>
    /\ roots = <<>>
    /\ call = [fn |-> "none"]

(***************************************************************************)
(* Strings                                                                 *)
(***************************************************************************)

\* String.prototype.includes: sub occurs in s as a substring
Includes(s, sub) ==
    \E i \in 0..(Len(s) - Len(sub)) :
        \A j \in 1..Len(sub) : s[i + j] = sub[j]

\* String.prototype.charAt: the character at 0-based index i, or ""
CharAt(s, i) == IF i >= 0 /\ i < Len(s) THEN <<s[i + 1]>> ELSE <<>>

(***************************************************************************)
(* Values                                                                  *)
(*                                                                         *)
(* A value is a record tagged by its type. A List holds a sequence of        *)
(* values, an Obj a function from its own keys to values. A key is a       *)
(* string, so a sequence of characters.                                    *)
(***************************************************************************)

Str(s) == [t |-> "string", v |-> s]
Num(n) == [t |-> "number", v |-> n]
List(l) == [t |-> "array", v |-> l]
Obj(f) == [t |-> "object", v |-> f]
Fn(name) == [t |-> "function", v |-> name]
Undefined == [t |-> "undefined"]
\* The hole of a sparse array
Empty == [t |-> "empty"]

constructor == <<"c", "o", "n", "s", "t", "r", "u", "c", "t", "o", "r">>
toString == <<"t", "o", "S", "t", "r", "i", "n", "g">>

\* The properties every object inherits from Object.prototype, as far as
\* the keys of the model reach them
ObjectPrototypeKeys == {constructor, toString}

\* The `in` operator on an object: own and inherited properties
In(k, f) == k \in DOMAIN f \/ k \in ObjectPrototypeKeys

\* The read f[k] of an object's property: own, else inherited, else undefined
Get(f, k) ==
    IF k \in DOMAIN f THEN f[k]
    ELSE IF k \in ObjectPrototypeKeys THEN Fn(k)
    ELSE Undefined

\* The write f[k] = x
Put(f, k, x) == (k :> x) @@ f

\* Lines 455-469: isObject. m.constructor is Object for an object that has
\* no own property "constructor"; an own one shadows it, and a primitive
\* stored there has no name "Object" (the model stores only primitives
\* under that key).
isObject(m) ==
    /\ m.t = "object"
    /\ constructor \notin DOMAIN m.v

isArray(m) == m.t = "array"

(***************************************************************************)
(* Characters                                                              *)
(***************************************************************************)

Digits == {"0", "1", "2", "3", "4", "5", "6", "7", "8", "9"}

Letters ==
    {
      "a", "b", "c", "d", "e", "f", "g", "h", "i", "j", "k", "l", "m", "n",
      "o", "p", "q", "r", "s", "t", "u", "v", "w", "x", "y", "z", "A", "B",
      "C", "D", "E", "F", "G", "H", "I", "J", "K", "L", "M", "N", "O", "P",
      "Q", "R", "S", "T", "U", "V", "W", "X", "Y", "Z"
    }

HexDigits == Digits \cup {"a", "b", "c", "d", "e", "f", "A", "B", "C", "D", "E", "F"}

\* The characters of the ASCII codes 0..127, in order; a control character
\* and the grave accent
\* are written by their names
Ascii ==
    <<
      "NUL", "SOH", "STX", "ETX", "EOT", "ENQ", "ACK", "BEL", "BS", "TAB",
      "LF", "VT", "FF", "CR", "SO", "SI", "DLE", "DC1", "DC2", "DC3", "DC4",
      "NAK", "SYN", "ETB", "CAN", "EM", "SUB", "ESC", "FS", "GS", "RS", "US",
      " ", "!", "\"", "#", "$", "%", "&", "'", "(", ")", "*", "+", ",", "-",
      ".", "/", "0", "1", "2", "3", "4", "5", "6", "7", "8", "9", ":", ";",
      "<", "=", ">", "?", "@", "A", "B", "C", "D", "E", "F", "G", "H", "I",
      "J", "K", "L", "M", "N", "O", "P", "Q", "R", "S", "T", "U", "V", "W",
      "X", "Y", "Z", "[", "\\", "]", "^", "_", "GRAVE", "a", "b", "c", "d", "e",
      "f", "g", "h", "i", "j", "k", "l", "m", "n", "o", "p", "q", "r", "s",
      "t", "u", "v", "w", "x", "y", "z", "{", "|", "}", "~", "DEL"
    >>

\* Lines 15, 424-443: isNumeric on a string, /^\d+$/
isNumeric(s) == Len(s) > 0 /\ \A i \in 1..Len(s) : s[i] \in Digits

DigitValue(c) == CHOOSE n \in 0..9 : Ascii[49 + n] = c

HexValue(c) ==
    IF c \in Digits THEN DigitValue(c)
    ELSE CHOOSE n \in 10..15 : c \in {Ascii[88 + n], Ascii[56 + n]}

\* parseInt(s, 10) of a string of digits
RECURSIVE parseInt(_)
parseInt(s) ==
    IF s = <<>> THEN 0
    ELSE 10 * parseInt(SubSeq(s, 1, Len(s) - 1)) + DigitValue(s[Len(s)])

\* Number.prototype.toString of an integer i >= 0
RECURSIVE NumberToString(_)
NumberToString(i) ==
    IF i < 10 THEN <<Ascii[49 + i]>>
    ELSE NumberToString(i \div 10) \o <<Ascii[49 + (i % 10)]>>

(***************************************************************************)
(* parseQuery                                                              *)
(***************************************************************************)

\* The longest prefix of s, from the 0-based index p, whose characters are
\* all in the set cs, as the index just after it
RunEnd(s, p, cs) ==
    CHOOSE e \in p..Len(s) :
        /\ \A i \in (p + 1)..e : s[i] \in cs
        /\ e = Len(s) \/ s[e + 1] \notin cs

Chars(s) == { s[i] : i \in 1..Len(s) }

NoMatch == [matched |-> FALSE, g1 |-> <<>>, g2 |-> <<>>, lastIndex |-> 0]

\* Line 17: _reQueryPart.exec(q) with the regular expression's lastIndex at
\* li, for /([^=&]+)=?([^&]*)/g. The search starts at lastIndex; a match
\* leaves lastIndex just after it, a failure resets lastIndex to 0.
ExecQueryPart(q, li) ==
    LET starts == { p \in li..(Len(q) - 1) : q[p + 1] \notin {"=", "&"} } IN
    IF li > Len(q) \/ starts = {} THEN NoMatch
    ELSE
        LET p  == CHOOSE x \in starts : \A y \in starts : x <= y
            e1 == RunEnd(q, p, Chars(q) \ {"=", "&"})
            eq == IF e1 < Len(q) /\ q[e1 + 1] = "=" THEN e1 + 1 ELSE e1
            e2 == RunEnd(q, eq, Chars(q) \ {"&"})
        IN  [matched |-> TRUE,
             g1 |-> SubSeq(q, p + 1, e1),
             g2 |-> SubSeq(q, eq + 1, e2),
             lastIndex |-> e2]

NameStart == Letters \cup {"_"}
NameChars == Letters \cup Digits \cup {"_"}

\* Mutant of ExecQueryName: every name passes, as a name without a bracket
ExecQueryNameAny(s) ==
    [matched |-> TRUE, name |-> s, bracket |-> FALSE, key |-> <<>>]

\* Line 18: _reQueryName.exec(s), for
\* /^([a-zA-Z_][0-9a-zA-Z_]*)(\[([0-9a-zA-Z_]*)\])?$/. bracket tells whether
\* the second group took part in the match, key is the third group.
ExecQueryName(s) ==
    LET none == [matched |-> FALSE, name |-> <<>>, bracket |-> FALSE,
                 key |-> <<>>]
    IN
    IF s = <<>> \/ s[1] \notin NameStart THEN none
    ELSE
        LET e == RunEnd(s, 1, NameChars) IN
        IF e = Len(s)
        THEN [matched |-> TRUE, name |-> s, bracket |-> FALSE, key |-> <<>>]
        ELSE IF /\ s[e + 1] = "["
                /\ Len(s) >= e + 2
                /\ s[Len(s)] = "]"
                /\ \A i \in (e + 2)..(Len(s) - 1) : s[i] \in NameChars
        THEN [matched |-> TRUE, name |-> SubSeq(s, 1, e), bracket |-> TRUE,
              key |-> SubSeq(s, e + 2, Len(s) - 1)]
        ELSE none

\* decodeURIComponent(s): a "%" must be followed by two hexadecimal digits,
\* else URIError is thrown. The escape of a code below 128 is that ASCII
\* character. A code of 128 or more is a byte of a multi-byte UTF-8
\* sequence, which throws unless its continuation bytes follow; the queries
\* of the model hold none that is complete.
RECURSIVE decodeURIComponent(_)
decodeURIComponent(s) ==
    IF s = <<>> THEN [threw |-> FALSE, v |-> <<>>]
    ELSE IF s[1] # "%"
    THEN LET r == decodeURIComponent(Tail(s)) IN
         [threw |-> r.threw, v |-> IF r.threw THEN <<>> ELSE <<s[1]>> \o r.v]
    ELSE IF Len(s) < 3 \/ s[2] \notin HexDigits \/ s[3] \notin HexDigits
    THEN [threw |-> TRUE, v |-> <<>>]
    ELSE
        LET code == 16 * HexValue(s[2]) + HexValue(s[3])
            r == decodeURIComponent(SubSeq(s, 4, Len(s)))
        IN  IF code >= 128 \/ r.threw THEN [threw |-> TRUE, v |-> <<>>]
            ELSE [threw |-> FALSE, v |-> <<Ascii[code + 1]>> \o r.v]

\* The write arr[i] = x on an array, which grows it with holes as needed
SetIndex(arr, i, x) ==
    IF i < Len(arr) THEN [arr EXCEPT ![i + 1] = x]
    ELSE arr \o [j \in 1..(i - Len(arr)) |-> Empty] \o <<x>>

\* The read arr[i] of an array: a hole reads as undefined
GetIndex(arr, i) ==
    IF i < Len(arr) /\ arr[i + 1].t # "empty" THEN arr[i + 1] ELSE Undefined

\* Lines 1092-1095: the array as an object keyed by its indices
ArrayToObject(arr) ==
    [k \in { NumberToString(i) : i \in 0..(Len(arr) - 1) } |->
        GetIndex(arr, parseInt(k))]

\* Lines 1034-1148: the value stored under the name n of o for a field
\* with the key k (bracket tells whether the name had one) and the decoded
\* value x
StoreField(o, n, bracket, k, x) ==
    IF ~bracket THEN x
    ELSE IF ~In(n, o)
    THEN IF k # <<>>
         THEN IF isNumeric(k) THEN List(SetIndex(<<>>, parseInt(k), x))
              ELSE Obj(k :> x)
         ELSE List(<<x>>)
    ELSE
        LET old == Get(o, n) IN
        IF k # <<>>
        THEN IF isObject(old) THEN Obj(Put(old.v, k, x))
             ELSE IF isArray(old)
             THEN IF isNumeric(k) THEN List(SetIndex(old.v, parseInt(k), x))
                  ELSE Obj(Put(ArrayToObject(old.v), k, x))
             ELSE Obj(Put(<<"0">> :> old, k, x))
        ELSE IF isArray(old) THEN List(Append(old.v, x))
             ELSE IF isObject(old) THEN Obj(Put(old.v, <<>>, x))
             ELSE List(<<old, x>>)

\* Lines 1025-1148: one field of the query. A name that fails the grammar
\* is skipped; the value is decoded only for a name that passes.
ApplyField(o, g1, g2) ==
    LET lName == ExecQueryName(g1) IN
    IF ~lName.matched THEN [threw |-> FALSE, v |-> o]
    ELSE
        LET d == decodeURIComponent(g2) IN
        IF d.threw THEN [threw |-> TRUE, v |-> o]
        ELSE [threw |-> FALSE,
              v |-> Put(o, lName.name,
                        StoreField(o, lName.name, lName.bracket, lName.key,
                                   Str(d.v)))]

\* Lines 1019-1149: the loop over the fields, from the lastIndex li with
\* the object o built so far. An exception leaves lastIndex where the
\* last match set it.
RECURSIVE ParseLoop(_, _, _)
ParseLoop(q, li, o) ==
    LET lField == ExecQueryPart(q, li) IN
    IF ~lField.matched
    THEN [threw |-> FALSE, v |-> o, lastIndex |-> lField.lastIndex]
    ELSE
        LET r == ApplyField(o, lField.g1, lField.g2) IN
        IF r.threw
        THEN [threw |-> TRUE, v |-> <<>>, lastIndex |-> lField.lastIndex]
        ELSE ParseLoop(q, lField.lastIndex, r.v)

\* Lines 1009-1154: parseQuery(q), called with _reQueryPart.lastIndex at li
parseQuery(q, li) ==
    IF Len(q) > 1 THEN ParseLoop(q, li, <<>>)
    ELSE [threw |-> FALSE, v |-> <<>>, lastIndex |-> li]

\* The most fields a query of the model holds
MaxTokens == 2

\* The fields the queries are made of: a plain pair, an append, a numeric
\* key, a string key, an escaped value, a malformed escape, a name that
\* fails the grammar and a lone character
QueryTokens ==
    { <<"a", "=", "1">>,                            \* a=1
      <<"a", "[", "]", "=", "2">>,                  \* a[]=2
      <<"a", "[", "1", "]", "=", "3">>,             \* a[1]=3
      <<"a", "[", "k", "]", "=", "4">>,             \* a[k]=4
      <<"b", "=", "%", "4", "1">>,                  \* b=%41
      <<"a", "=", "%">>,                            \* a=%
      <<"1", "=", "5">>,                            \* 1=5
      <<"x">> }                                     \* x

RECURSIVE JoinFields(_)
JoinFields(l) ==
    IF l = <<>> THEN <<>>
    ELSE IF Len(l) = 1 THEN l[1]
    ELSE l[1] \o <<"&">> \o JoinFields(Tail(l))

Queries ==
    { JoinFields(l) :
        l \in UNION { [1..n -> QueryTokens] : n \in 0..MaxTokens } }

InitQuery == IdleQuery /\ IdleRandom /\ IdleHeap

\* A call parseQuery(q): it runs from the lastIndex the calls before left
\* in _reQueryPart, and returns an object or throws URIError
ParseQuery(q) ==
    LET r == parseQuery(q, lastIndex) IN
    /\ query' = q
    /\ lastIndex' = r.lastIndex
    /\ queryOut' = IF r.threw THEN [t |-> "threw"]
                   ELSE [t |-> "returned", v |-> Obj(r.v)]
    /\ UNCHANGED notQuery

NextQuery == \E q \in Queries : ParseQuery(q)

SpecQuery == InitQuery /\ [][NextQuery]_vars

(***************************************************************************)
(* Claims about parseQuery                                                 *)
(***************************************************************************)

\* The outcome of parseQuery(q) called first in a fresh program
FreshOutcome(q) ==
    LET r == parseQuery(q, 0) IN
    IF r.threw THEN [t |-> "threw"] ELSE [t |-> "returned", v |-> Obj(r.v)]

\* C1: parseQuery keeps no state between calls: the outcome of every call
\* parseQuery(q), also after calls that threw while decoding a value, is
\* the outcome of parseQuery(q) called first in a fresh program.
C1_ParseQueryStateless ==
    queryOut.t # "none" => queryOut = FreshOutcome(query)

(***************************************************************************)
(* random                                                                  *)
(***************************************************************************)

\* The largest length requested
MaxLength == 3

\* The sets available for the random function
_oRandomSets ==
       "0x" :> <<"0","1","2","3","4","5","6","7","8","9","a","b","c","d","e",
         "f">>
    @@ "0" :> <<"0","1","2","3","4","5","6","7">>
    @@ "10" :> <<"0","1","2","3","4","5","6","7","8","9">>
    @@ "10*" :> <<"1","2","3","4","5","6","7","8","9">>
    @@ "az" :> <<"a","b","c","d","e","f","g","h","i","j","k","l","m","n","o",
         "p","q","r","s","t","u","v","w","x","y","z">>
    @@ "az*" :> <<"a","b","c","d","e","f","g","h","i","j","k","m","n","o","p",
         "q","r","s","t","u","v","w","x","y","z">>
    @@ "AZ" :> <<"A","B","C","D","E","F","G","H","I","J","K","L","M","N","O",
         "P","Q","R","S","T","U","V","W","X","Y","Z">>
    @@ "AZ*" :> <<"A","B","C","D","E","F","G","H","J","K","L","M","N","P","Q",
         "R","S","T","U","V","W","X","Y","Z">>
    @@ "aZ" :> <<"a","b","c","d","e","f","g","h","i","j","k","l","m","n","o",
         "p","q","r","s","t","u","v","w","x","y","z","A","B","C","D","E","F",
         "G","H","I","J","K","L","M","N","O","P","Q","R","S","T","U","V","W",
         "X","Y","Z">>
    @@ "aZ*" :> <<"a","b","c","d","e","f","g","h","i","j","k","m","n","o","p",
         "q","r","s","t","u","v","w","x","y","z","A","B","C","D","E","F","G",
         "H","J","K","L","M","N","P","Q","R","S","T","U","V","W","X","Y",
         "Z">>
    @@ "!" :> <<"!","@","#","$","%","^","&","*","-","_","+",".","?">>
    @@ "!*" :> <<"!","@","$","^","*","-","_",".">>

\* The values passed as `sets`: lists of entries, literal strings, and a
\* value that is neither. A list entry is a string or a number.
SetsInputs ==
    { List(<<>>),
      List(<<Str("0")>>), List(<<Str("!*")>>), List(<<Str("0"), Str("0")>>),
      List(<<Str("zz")>>), List(<<Str("0"), Str("zz")>>),
      List(<<Num(7)>>), List(<<Str("!*"), Num(7)>>),
      Str(<<>>), Str(<<"a">>), Str(<<"a", "b">>), Str(<<"a", "a", "b">>),
      Str(<<"a", "b", "c">>), Str(<<"a", "b", "c", "d">>),
      Num(7) }

\* Lines 1286-1300: the loop over the passed sets. The result holds the
\* concatenation of the named sets, or threw at the first entry that is
\* not a string or not the name of a set.
Threw == [threw |-> TRUE, chars |-> <<>>]

RECURSIVE AddSets(_, _)
AddSets(l, acc) ==
    IF l = <<>> THEN [threw |-> FALSE, chars |-> acc]
    ELSE IF Head(l).t # "string" THEN Threw
    ELSE IF Head(l).v \notin DOMAIN _oRandomSets THEN Threw
    ELSE AddSets(Tail(l), acc \o _oRandomSets[Head(l).v])

\* Lines 1274-1311: the working alphabet for the argument, or threw
BuildChars(s) ==
    IF s.t = "array"
    THEN IF Len(s.v) = 0 THEN Threw ELSE AddSets(s.v, <<>>)
    ELSE IF s.t = "string" THEN [threw |-> FALSE, chars |-> s.v]
    ELSE Threw

\* Line 1315: the check for a request that no duplicates can satisfy
NotEnoughChars(dup, cs, n) == ~dup /\ Len(cs) < n

\* Mutant of Rejected: a repeated character is never rejected
RejectedNever(dup, txt, found) == FALSE

\* Line 1330: the drawn character is rejected
Rejected(dup, txt, found) == ~dup /\ Includes(txt, found)

\* Line 1325: Math.floor(Math.random() * chars.length), for Math.random()
\* in [0, 1): any position of chars, and 0 when chars is empty
DrawRange(cs) == IF Len(cs) = 0 THEN {0} ELSE 0..(Len(cs) - 1)

InitRandom ==
    /\ length \in 0..MaxLength
    /\ sets \in SetsInputs
    /\ duplicates \in BOOLEAN
    /\ chars = <<>>
    /\ text = <<>>
    /\ iter = 0
    /\ pcRandom = "start"
    /\ IdleQuery
    /\ IdleHeap

\* Lines 1274-1320: build the alphabet and validate the request
Validate ==
    /\ pcRandom = "start"
    /\ LET r == BuildChars(sets) IN
        IF r.threw \/ NotEnoughChars(duplicates, r.chars, length)
        THEN /\ pcRandom' = "threw"
             /\ UNCHANGED chars
        ELSE /\ pcRandom' = "loop"
             /\ chars' = r.chars
    /\ text' = <<>>
    /\ UNCHANGED <<length, sets, duplicates, iter, notRandom>>

\* Lines 1323-1336: one iteration of the loop, drawing position i
Draw(i) ==
    /\ pcRandom = "loop"
    /\ Len(text) < length
    /\ i \in DrawRange(chars)
    /\ LET found == CharAt(chars, i) IN
        text' = IF Rejected(duplicates, text, found) THEN text
                ELSE text \o found
    /\ iter' = 1 - iter
    /\ UNCHANGED <<length, sets, duplicates, chars, pcRandom, notRandom>>

\* Lines 1323, 1339: the loop condition fails and text is returned
Return ==
    /\ pcRandom = "loop"
    /\ ~(Len(text) < length)
    /\ pcRandom' = "done"
    /\ UNCHANGED <<length, sets, duplicates, chars, text, iter, notRandom>>

\* Every position some alphabet of SetsInputs has
Positions == UNION { DrawRange(BuildChars(s).chars) : s \in SetsInputs }

NextRandom ==
    \/ Validate
    \/ \E i \in Positions : Draw(i)
    \/ Return

SpecRandom == InitRandom /\ [][NextRandom]_vars

\* Math.random is fair: while the loop runs, every position is drawn again
SpecRandomFair ==
    /\ SpecRandom
    /\ \A i \in Positions : WF_vars(Draw(i))
    /\ WF_vars(Validate)
    /\ WF_vars(Return)

(***************************************************************************)
(* Claims about random                                                     *)
(***************************************************************************)

Range(f) == { f[x] : x \in DOMAIN f }

\* The characters of the working alphabet the claims speak of: those of the
\* named sets of a list, or those of a literal string
WorkingAlphabet(s) ==
    IF s.t = "array"
    THEN UNION { Range(_oRandomSets[e.v]) :
                    e \in { x \in Range(s.v) : x.t = "string"
                                /\ x.v \in DOMAIN _oRandomSets } }
    ELSE IF s.t = "string" THEN Range(s.v)
    ELSE {}

C3_LoopTerminates == (pcRandom = "loop") ~> (pcRandom = "done")

\* The cases in which the claim says random fails
EmptyList(s) == s.t = "array" /\ Len(s.v) = 0

UnknownEntry(s) ==
    /\ s.t = "array"
    /\ \E e \in Range(s.v) : e.t # "string" \/ e.v \notin DOMAIN _oRandomSets

TooFewDistinct(s, dup, n) ==
    /\ s.t \in {"array", "string"}
    /\ ~dup
    /\ Cardinality(WorkingAlphabet(s)) < n

\* C4: random fails with an error when sets is an empty list, when an entry
\* is not a recognised set name, and when duplicates is false and the working
\* alphabet has fewer distinct characters than length.
C4_RandomErrors ==
    (/\ pcRandom # "start"
     /\ \/ EmptyList(sets)
        \/ UnknownEntry(sets)
        \/ TooFewDistinct(sets, duplicates, length))
    => pcRandom = "threw"

(***************************************************************************)
(* The heap                                                                *)
(*                                                                         *)
(* Arrays and objects live in the heap, a sequence indexed by address; a   *)
(* value that is an array or an object is a Ref to its address, so that    *)
(* two variables can hold the same object.                                 *)
(***************************************************************************)

Ref(p) == [t |-> "ref", v |-> p]
Bool(b) == [t |-> "boolean", v |-> b]
Null == [t |-> "null"]

\* The === of two values: primitives by value, arrays and objects by
\* identity
StrictEquals(x, y) == x.t = y.t /\ x = y

\* The array or object a value refers to; a primitive as it is
Target(h, x) == IF x.t = "ref" THEN h[x.v] ELSE x

\* A new array or object o in the heap
New(h, o) == [h |-> Append(h, o), v |-> Ref(Len(h) + 1)]

\* The read x[k] of a property of a value: of an object its own or
\* inherited property, undefined otherwise
Prop(h, x, k) ==
    IF Target(h, x).t = "object" THEN Get(Target(h, x).v, k) ELSE Undefined

\* src/index.js lines 325-333: the isObject that clone calls. It accepts
\* every value of type "object" that is neither null nor an array.
isObjectJs(m) == m.t = "object"

\* Mutant of clone: a copy of the array or object that holds the same
\* elements, none of them cloned
cloneShallow(h, o) ==
    IF o.t = "ref" THEN New(h, h[o.v]) ELSE [h |-> h, v |-> o]

\* Mutant of clone: the value itself in place of a copy
cloneSame(h, o) == [h |-> h, v |-> o]

\* src/index.js lines 105-128: clone. An array is copied element by
\* element (a hole is read as undefined), what isObject accepts key by key,
\* and every other value is returned as it is.
RECURSIVE clone(_, _), cloneItems(_, _, _), cloneKeys(_, _, _, _)
clone(h, o) ==
    IF isArray(Target(h, o))
    THEN cloneItems(New(h, List(<<>>)).h, Len(h) + 1, h[o.v].v)
    ELSE IF isObjectJs(Target(h, o))
    THEN cloneKeys(New(h, Obj(<<>>)).h, Len(h) + 1, h[o.v].v,
                   DOMAIN h[o.v].v)
    ELSE [h |-> h, v |-> o]

\* Lines 111-113 of clone: push the clone of each item onto the array at n
cloneItems(h, n, items) ==
    IF items = <<>> THEN [h |-> h, v |-> Ref(n)]
    ELSE
        LET i == IF Head(items).t = "empty" THEN Undefined ELSE Head(items)
            r == clone(h, i)
        IN  cloneItems([r.h EXCEPT ![n] = List(Append(r.h[n].v, r.v))], n,
                       Tail(items))

\* Lines 118-120 of clone: store the clone of each value of o under its
\* key in the object at n
cloneKeys(h, n, o, keys) ==
    IF keys = {} THEN [h |-> h, v |-> Ref(n)]
    ELSE
        LET k == CHOOSE x \in keys : TRUE
            r == clone(h, o[k])
        IN  cloneKeys([r.h EXCEPT ![n] = Obj(Put(r.h[n].v, k, r.v))], n, o,
                      keys \ {k})

\* The structure of a value: its arrays and objects in place of the
\* references to them
RECURSIVE Deref(_, _)
Deref(h, x) ==
    IF x.t # "ref" THEN x
    ELSE IF h[x.v].t = "array"
    THEN List([i \in DOMAIN h[x.v].v |-> Deref(h, h[x.v].v[i])])
    ELSE Obj([k \in DOMAIN h[x.v].v |-> Deref(h, h[x.v].v[k])])

\* The addresses of the arrays and objects reachable from a value
RECURSIVE Reach(_, _)
Reach(h, x) ==
    IF x.t # "ref" THEN {}
    ELSE {x.v} \cup UNION { Reach(h, h[x.v].v[i]) : i \in DOMAIN h[x.v].v }

\* A structure built in the heap: its arrays and objects are allocated,
\* the innermost first
RECURSIVE Build(_, _), BuildItems(_, _, _), BuildKeys(_, _, _, _)
Build(h, x) ==
    IF x.t = "array"
    THEN LET r == BuildItems(h, x.v, <<>>) IN New(r.h, List(r.v))
    ELSE IF x.t = "object"
    THEN LET r == BuildKeys(h, x.v, DOMAIN x.v, <<>>) IN New(r.h, Obj(r.v))
    ELSE [h |-> h, v |-> x]

BuildItems(h, items, acc) ==
    IF items = <<>> THEN [h |-> h, v |-> acc]
    ELSE LET r == Build(h, Head(items)) IN
         BuildItems(r.h, Tail(items), Append(acc, r.v))

BuildKeys(h, f, keys, acc) ==
    IF keys = {} THEN [h |-> h, v |-> acc]
    ELSE LET k == CHOOSE x \in keys : TRUE
             r == Build(h, f[k])
         IN  BuildKeys(r.h, f, keys \ {k}, Put(acc, k, r.v))

(***************************************************************************)
(* afindi, arrayFindDelete, arrayFindMerge, arrayFindOverwrite             *)
(***************************************************************************)

\* Mutant of afindi: the index of the last match in place of the first
afindiLast(h, a, k, v) ==
    LET hits == { i \in 0..(Len(h[a].v) - 1) :
                    StrictEquals(Prop(h, h[a].v[i + 1], k), v) }
    IN  IF hits = {} THEN -1
        ELSE CHOOSE i \in hits : \A j \in hits : i >= j

\* Lines 34-38 of afindi: the loop, from the index i on
RECURSIVE afindiFrom(_, _, _, _, _)
afindiFrom(h, a, k, v, i) ==
    IF i >= Len(h[a].v) THEN -1
    ELSE IF StrictEquals(Prop(h, h[a].v[i + 1], k), v) THEN i
    ELSE afindiFrom(h, a, k, v, i + 1)

\* Lines 33-40: afindi on the array at the address a
afindi(h, a, k, v) == afindiFrom(h, a, k, v, 0)

\* Lines 56-60 of afindo: the loop over the elements, from the index i on
RECURSIVE afindoFrom(_, _, _, _, _)
afindoFrom(h, a, k, v, i) ==
    IF i >= Len(h[a].v) THEN Null
    ELSE IF StrictEquals(Prop(h, h[a].v[i + 1], k), v) THEN h[a].v[i + 1]
    ELSE afindoFrom(h, a, k, v, i + 1)

\* Lines 55-62: afindo on the array at the address a
afindo(h, a, k, v) == afindoFrom(h, a, k, v, 0)

\* Array.prototype.splice(i, 1)
Splice1(l, i) == SubSeq(l, 1, i) \o SubSeq(l, i + 2, Len(l))

\* The spread {...x, ...d}: the own properties of x overlaid by those of d
Spread(x, d) == d @@ x

\* Mutant of DeleteAt: the element after the one found is removed
DeleteAtNext(l, i) == Splice1(l, i + 1)

\* Lines 96, 101: splice(i, 1) on the list of the array
DeleteAt(l, i) == Splice1(l, i)

\* Mutant of CloneForReturn: the array itself in place of a clone
CloneForReturnSame(h, a) == [h |-> h, v |-> Ref(a)]

\* Lines 95, 137, 179: const l = clone(a)
CloneForReturn(h, a) == clone(h, Ref(a))

\* Mutant of NotFound: the array is returned whether or not returnClone
NotFoundArray(a, returnClone) == Ref(a)

\* Lines 89-91, 131-133, 173-175: the record isn't found
NotFound(a, returnClone) == IF returnClone THEN Ref(a) ELSE Bool(FALSE)

\* Lines 83-103: arrayFindDelete
arrayFindDelete(h, a, k, v, returnClone) ==
    LET i == afindi(h, a, k, v) IN
    IF i = -1 THEN [h |-> h, v |-> NotFound(a, returnClone)]
    ELSE IF returnClone
    THEN LET l == CloneForReturn(h, a) IN
         [h |-> [l.h EXCEPT ![l.v.v] = List(DeleteAt(l.h[l.v.v].v, i))],
          v |-> l.v]
    ELSE [h |-> [h EXCEPT ![a] = List(DeleteAt(h[a].v, i))],
          v |-> Bool(TRUE)]

\* Lines 138, 143: x[i] = {...x[i], ...d} on the array at the address x
MergeAt(h, x, i, d) ==
    LET o == New(h, Obj(Spread(Target(h, h[x].v[i + 1]).v, Target(h, d).v)))
    IN  [o.h EXCEPT ![x] = List([o.h[x].v EXCEPT ![i + 1] = o.v])]

\* Lines 125-145: arrayFindMerge
arrayFindMerge(h, a, k, v, d, returnClone) ==
    LET i == afindi(h, a, k, v) IN
    IF i = -1 THEN [h |-> h, v |-> NotFound(a, returnClone)]
    ELSE IF returnClone
    THEN LET l == CloneForReturn(h, a) IN
         [h |-> MergeAt(l.h, l.v.v, i, d), v |-> l.v]
    ELSE [h |-> MergeAt(h, a, i, d), v |-> Bool(TRUE)]

\* Lines 180, 185: x[i] = d on the array at the address x
OverwriteAt(h, x, i, d) == [h EXCEPT ![x] = List([h[x].v EXCEPT ![i + 1] = d])]

\* Lines 167-187: arrayFindOverwrite
arrayFindOverwrite(h, a, k, v, d, returnClone) ==
    LET i == afindi(h, a, k, v) IN
    IF i = -1 THEN [h |-> h, v |-> NotFound(a, returnClone)]
    ELSE IF returnClone
    THEN LET l == CloneForReturn(h, a) IN
         [h |-> OverwriteAt(l.h, l.v.v, i, d), v |-> l.v]
    ELSE [h |-> OverwriteAt(h, a, i, d), v |-> Bool(TRUE)]

\* The most elements the array `a` holds
MaxElems == 2

iso == <<"i", "s", "o">>
name == <<"n", "a", "m", "e">>
CA == Str(<<"C", "A">>)
US == Str(<<"U", "S">>)
GB == Str(<<"G", "B">>)

\* The elements of `a`: objects with and without the keys searched, one
\* with an own property "constructor", one holding an object
ElemShapes ==
    { Obj(iso :> CA),
      Obj(iso :> US),
      Obj(iso :> US @@ name :> CA),
      Obj(name :> US),
      Obj(constructor :> CA @@ iso :> US),
      Obj(iso :> CA @@ name :> Obj(iso :> US)) }

\* The objects passed as `d`
DataShapes ==
    { Obj(iso :> GB),
      Obj(name :> GB),
      Obj(iso :> US @@ name :> Obj(iso :> GB)) }

\* The keys and values searched for
FindKeys == {iso, name}
FindValues == {CA, US, Undefined}

\* The caller holds an array `a` of objects and an object `d`, which is
\* an object of its own or one of the elements of `a`
InitFind ==
    /\ \E l \in UNION { [1..n -> ElemShapes] : n \in 0..MaxElems } :
        LET ra == Build(<<>>, List(l)) IN
        \/ \E x \in DataShapes :
            LET rd == Build(ra.h, x) IN
            /\ heap = rd.h
            /\ roots = [a |-> ra.v, d |-> rd.v]
        \/ \E i \in 1..Len(l) :
            /\ heap = ra.h
            /\ roots = [a |-> ra.v, d |-> ra.h[ra.v.v].v[i]]
    /\ call = [fn |-> "none"]
    /\ IdleRandom
    /\ IdleQuery

\* The call arrayFindDelete(a, k, v, returnClone)
ArrayFindDelete(k, v, returnClone) ==
    /\ call.fn = "none"
    /\ LET r == arrayFindDelete(heap, roots.a.v, k, v, returnClone) IN
        /\ heap' = r.h
        /\ call' = [fn |-> "arrayFindDelete", k |-> k, v |-> v,
                    returnClone |-> returnClone, ret |-> r.v]
    /\ UNCHANGED <<roots, notHeap>>

\* The call arrayFindMerge(a, k, v, d, returnClone)
ArrayFindMerge(k, v, returnClone) ==
    /\ call.fn = "none"
    /\ LET r == arrayFindMerge(heap, roots.a.v, k, v, roots.d, returnClone)
       IN
        /\ heap' = r.h
        /\ call' = [fn |-> "arrayFindMerge", k |-> k, v |-> v,
                    returnClone |-> returnClone, ret |-> r.v]
    /\ UNCHANGED <<roots, notHeap>>

\* The call arrayFindOverwrite(a, k, v, d, returnClone)
ArrayFindOverwrite(k, v, returnClone) ==
    /\ call.fn = "none"
    /\ LET r == arrayFindOverwrite(heap, roots.a.v, k, v, roots.d,
                                   returnClone)
       IN
        /\ heap' = r.h
        /\ call' = [fn |-> "arrayFindOverwrite", k |-> k, v |-> v,
                    returnClone |-> returnClone, ret |-> r.v]
    /\ UNCHANGED <<roots, notHeap>>

NextFind ==
    \E k \in FindKeys, v \in FindValues, returnClone \in BOOLEAN :
        \/ ArrayFindDelete(k, v, returnClone)
        \/ ArrayFindMerge(k, v, returnClone)
        \/ ArrayFindOverwrite(k, v, returnClone)

SpecFind == InitFind /\ [][NextFind]_vars

(***************************************************************************)
(* Claims about arrayFindDelete, arrayFindMerge, arrayFindOverwrite        *)
(***************************************************************************)

\* The step is a call of one of the three functions
FindCalled == call.fn = "none" /\ call'.fn # "none"

\* Some element of the array at a has the field k strictly equal to v
HasMatch(h, a, k, v) ==
    \E i \in 1..Len(h[a].v) : StrictEquals(Prop(h, h[a].v[i], k), v)

\* Every array and object reachable from x in h is the same in h2: the
\* same elements in the same order, the same keys and values
Untouched(h, h2, x) == \A p \in Reach(h, x) : h2[p] = h[p]

\* C5: with returnClone true the three functions leave the input array
\* untouched: `a` keeps its length, its element objects and their order,
\* and every element keeps its keys and values, found or not.
C5_CloneLeavesInput ==
    [][(FindCalled /\ call'.returnClone) =>
            Untouched(heap, heap', roots.a)]_vars

\* A call with returnClone true found a match and returned another array
C5_Witness ==
    /\ call.fn # "none"
    /\ call.returnClone
    /\ call.ret.t = "ref"
    /\ call.ret.v # roots.a.v

\* The object `d` of the call shares no array or object with `a`
DataApart ==
    Reach(heap, roots.d) \cap Reach(heap, roots.a) = {}

\* C6 as claimed: with returnClone true the three functions return a new
\* copy, an array other than `a` that shares no array or object with it,
\* whether or not a match was found.
C6_ReturnsNewCopy ==
    (call.fn # "none" /\ call.returnClone /\ DataApart) =>
        /\ call.ret.t = "ref"
        /\ call.ret.v # roots.a.v
        /\ Reach(heap, call.ret) \cap Reach(heap, roots.a) = {}

\* C6 as amended: with returnClone true and a match found the three
\* functions return a new copy, an array other than `a` that shares no array
\* or object with it (for a `d` that shares none with `a`); with no match
\* found they return the array `a` itself.
C6_NewCopyWhenFound ==
    (call.fn # "none" /\ call.returnClone) =>
        IF HasMatch(heap, roots.a.v, call.k, call.v)
        THEN /\ call.ret.t = "ref"
             /\ call.ret.v # roots.a.v
             /\ DataApart =>
                    Reach(heap, call.ret) \cap Reach(heap, roots.a) = {}
        ELSE call.ret = roots.a

\* arrayFindMerge with returnClone found a match in an array of two
\* elements, one of which holds an object
C6_Witness ==
    /\ call.fn = "arrayFindMerge"
    /\ call.returnClone
    /\ DataApart
    /\ HasMatch(heap, roots.a.v, call.k, call.v)
    /\ Len(heap[call.ret.v].v) = 2
    /\ \E e \in Range(heap[roots.a.v].v) :
            Reach(heap, e) # {e.v}

\* C7: with no match and returnClone not set the three functions return
\* false and leave the array unchanged.
C7_NotFoundFalse ==
    [][(/\ FindCalled
        /\ ~call'.returnClone
        /\ ~HasMatch(heap, roots.a.v, call'.k, call'.v)) =>
            /\ call'.ret = Bool(FALSE)
            /\ Untouched(heap, heap', roots.a)]_vars

\* A call without returnClone on an array of two elements returned false
C7_Witness ==
    /\ call.fn # "none"
    /\ ~call.returnClone
    /\ call.ret = Bool(FALSE)
    /\ Len(heap[roots.a.v].v) = 2

\* What C8 says of the array: l and l2 are its lists of elements before
\* and after, i the 0-based index found
DeletedAt(l, l2, i) ==
    /\ Len(l2) = Len(l) - 1
    /\ \A j \in 1..Len(l2) : l2[j] = IF j <= i THEN l[j] ELSE l[j + 1]

ReplacedAt(l, l2, i) ==
    /\ Len(l2) = Len(l)
    /\ \A j \in 1..Len(l) : j # i + 1 => l2[j] = l[j]

\* The object o holds the keys of old overlaid by the keys of d
Overlaid(o, old, d) ==
    /\ o.t = "object"
    /\ DOMAIN o.v = DOMAIN old.v \cup DOMAIN d.v
    /\ \A k \in DOMAIN o.v :
        o.v[k] = IF k \in DOMAIN d.v THEN d.v[k] ELSE old.v[k]

\* C8: with a match and returnClone not set the three functions return
\* true and change the array only at i = afindi(a, k, v), the first match:
\* delete removes element i, merge replaces it by an object of the old
\* element's keys overlaid by those of d, overwrite replaces it by d; all
\* other elements, and all other arrays and objects, stay as they are.
C8_FoundInPlace ==
    [][(/\ FindCalled
        /\ ~call'.returnClone
        /\ HasMatch(heap, roots.a.v, call'.k, call'.v)) =>
            LET a == roots.a.v
                i == afindi(heap, a, call'.k, call'.v)
                l == heap[a].v
                l2 == heap'[a].v
            IN  /\ call'.ret = Bool(TRUE)
                /\ i >= 0
                /\ StrictEquals(Prop(heap, l[i + 1], call'.k), call'.v)
                /\ \A j \in 1..i :
                    ~StrictEquals(Prop(heap, l[j], call'.k), call'.v)
                /\ \A p \in DOMAIN heap \ {a} : heap'[p] = heap[p]
                /\ call'.fn = "arrayFindDelete" => DeletedAt(l, l2, i)
                /\ call'.fn = "arrayFindMerge" =>
                    /\ ReplacedAt(l, l2, i)
                    /\ l2[i + 1].t = "ref"
                    /\ Overlaid(heap'[l2[i + 1].v], heap[l[i + 1].v],
                                heap[roots.d.v])
                /\ call'.fn = "arrayFindOverwrite" =>
                    /\ ReplacedAt(l, l2, i)
                    /\ l2[i + 1] = roots.d]_vars

\* arrayFindDelete without returnClone removed one of two elements
C8_Witness ==
    /\ call.fn = "arrayFindDelete"
    /\ ~call.returnClone
    /\ call.ret = Bool(TRUE)
    /\ Len(heap[roots.a.v].v) = 1

(***************************************************************************)
(* clone, and what the caller does with a value and its clone              *)
(***************************************************************************)

\* The most mutations the caller makes after the call
MaxMutations == 2

\* The values cloned: a primitive, and arrays and objects holding
\* primitives, arrays and objects
CloneShapes ==
    { CA,
      Obj(iso :> CA),
      Obj(constructor :> CA @@ iso :> US),
      List(<<Obj(iso :> CA), US>>),
      Obj(iso :> CA @@ name :> Obj(iso :> US)),
      Obj(name :> List(<<CA>>)),
      List(<<List(<<Obj(constructor :> US)>>)>>) }

\* The caller holds a value x
InitClone ==
    /\ \E x \in CloneShapes :
        LET r == Build(<<>>, x) IN
        /\ heap = r.h
        /\ roots = [x |-> r.v]
    /\ call = [fn |-> "none"]
    /\ IdleRandom
    /\ IdleQuery

\* The call n = clone(x)
Clone ==
    /\ call.fn = "none"
    /\ LET r == clone(heap, roots.x) IN
        /\ heap' = r.h
        /\ roots' = [x |-> roots.x, n |-> r.v]
    /\ call' = [fn |-> "clone", count |-> 0]
    /\ UNCHANGED notHeap

\* The caller changes the array or object at p, reached from its variable
\* side ("x" or "n"), into o
Mutate(side, p, o) ==
    /\ call.fn \in {"clone", "mutate"}
    /\ call.count < MaxMutations
    /\ p \in Reach(heap, roots[side])
    /\ heap' = [heap EXCEPT ![p] = o]
    /\ call' = [fn |-> "mutate", count |-> call.count + 1, side |-> side,
                p |-> p]
    /\ UNCHANGED <<roots, notHeap>>

\* The assignment o[k] = GB through the variable side
SetKey(side, p, k) ==
    /\ p \in DOMAIN heap
    /\ heap[p].t = "object"
    /\ Mutate(side, p, Obj(Put(heap[p].v, k, GB)))

\* The statement delete o[k] through the variable side
DeleteKey(side, p, k) ==
    /\ p \in DOMAIN heap
    /\ heap[p].t = "object"
    /\ k \in DOMAIN heap[p].v
    /\ Mutate(side, p, Obj([j \in DOMAIN heap[p].v \ {k} |-> heap[p].v[j]]))

\* The assignment l[0] = GB through the variable side
SetFirst(side, p) ==
    /\ p \in DOMAIN heap
    /\ heap[p].t = "array"
    /\ Mutate(side, p, List(SetIndex(heap[p].v, 0, GB)))

\* The call l.push(GB) through the variable side
Push(side, p) ==
    /\ p \in DOMAIN heap
    /\ heap[p].t = "array"
    /\ Mutate(side, p, List(Append(heap[p].v, GB)))

NextClone ==
    \/ Clone
    \/ \E side \in {"x", "n"}, p \in DOMAIN heap :
        \/ \E k \in {iso, name} : SetKey(side, p, k)
        \/ \E k \in {iso, name} : DeleteKey(side, p, k)
        \/ SetFirst(side, p)
        \/ Push(side, p)

SpecClone == InitClone /\ [][NextClone]_vars

(***************************************************************************)
(* Claims about clone                                                      *)
(***************************************************************************)

\* C9: the clone n of a value x built from primitives, arrays and objects
\* is independent of x: a mutation made through n, at any depth, leaves the
\* structure of x as it was, and a mutation made through x leaves n as it
\* was.
C9_CloneIndependent ==
    [][call'.fn = "mutate" =>
        /\ call'.side = "n" =>
            Deref(heap', roots.x) = Deref(heap, roots.x)
        /\ call'.side = "x" =>
            Deref(heap', roots.n) = Deref(heap, roots.n)]_vars

\* An object inside the clone, below its top, was changed through n
C9_Witness ==
    /\ call.fn = "mutate"
    /\ call.side = "n"
    /\ call.p # roots.n.v
    /\ Deref(heap, roots.n) # Deref(heap, roots.x)

(***************************************************************************)
(* merge and combine                                                       *)
(***************************************************************************)

\* The value of h[a][k] and of h[b][k] are both objects, for isObject, and
\* k is a property of h[a]: lines 249 and 570
BothObjects(h, a, b, k) ==
    /\ isObject(Target(h, h[b].v[k]))
    /\ In(k, h[a].v)
    /\ isObject(Target(h, Get(h[a].v, k)))

\* Lines 566-583: merge(a, b) on the objects at the addresses a and b; the
\* result is the heap after it
RECURSIVE merge(_, _, _), mergeKeys(_, _, _, _)
merge(h, a, b) == mergeKeys(h, a, b, DOMAIN h[b].v)

\* Lines 569-582 of merge: the loop over the keys of b
mergeKeys(h, a, b, keys) ==
    IF keys = {} THEN h
    ELSE
        LET k == CHOOSE x \in keys : TRUE IN
        IF BothObjects(h, a, b, k)
        THEN mergeKeys(merge(h, h[a].v[k].v, h[b].v[k].v), a, b, keys \ {k})
        ELSE mergeKeys([h EXCEPT ![a] = Obj(Put(h[a].v, k, h[b].v[k]))],
                       a, b, keys \ {k})

\* Lines 246-260 of combine: the loop over the keys of b, on the copy at o
RECURSIVE combineKeys(_, _, _, _)
combineKeys(h, o, b, keys) ==
    IF keys = {} THEN h
    ELSE
        LET k == CHOOSE x \in keys : TRUE IN
        IF BothObjects(h, o, b, k)
        THEN combineKeys(merge(h, h[o].v[k].v, h[b].v[k].v), o, b,
                         keys \ {k})
        ELSE combineKeys([h EXCEPT ![o] = Obj(Put(h[o].v, k, h[b].v[k]))],
                         o, b, keys \ {k})

\* Mutant of combine: the loop runs on a itself in place of a clone of a
combineInPlace(h, a, b) ==
    [h |-> combineKeys(h, a, b, DOMAIN h[b].v), v |-> Ref(a)]

\* Mutant of combine: every key of b is stored in the copy, also where both
\* hold an object under it
combineShallow(h, a, b) ==
    LET o == clone(h, Ref(a))
        f == o.h[o.v.v].v
        g == o.h[b].v
    IN  [h |-> [o.h EXCEPT ![o.v.v] =
                    Obj([k \in DOMAIN f \cup DOMAIN g |->
                            IF k \in DOMAIN g THEN g[k] ELSE f[k]])],
         v |-> o.v]

\* Lines 240-264: combine(a, b) on the objects at the addresses a and b
combine(h, a, b) ==
    LET o == clone(h, Ref(a)) IN
    [h |-> combineKeys(o.h, o.v.v, b, DOMAIN o.h[b].v), v |-> o.v]

\* The objects passed as a and b: empty, flat, nested to two and three
\* levels, holding an object with an own property "constructor", holding
\* an array
CombineShapes ==
    { Obj(<<>>),
      Obj(iso :> CA),
      Obj(iso :> US @@ name :> GB),
      Obj(name :> Obj(iso :> CA)),
      Obj(name :> Obj(iso :> US @@ name :> Obj(iso :> GB))),
      Obj(name :> Obj(constructor :> CA @@ iso :> US)),
      Obj(iso :> Obj(name :> CA) @@ name :> List(<<CA>>)) }

\* The objects b that share with a: a itself, and an object holding under
\* "name" the object that a holds under "name"
SharingB(h, a) ==
    { [h |-> h, v |-> a] }
    \cup (IF name \in DOMAIN h[a.v].v /\ h[a.v].v[name].t = "ref"
          THEN { New(h, Obj(name :> h[a.v].v[name])) }
          ELSE {})

\* The caller holds two objects a and b, which share nothing or of which b
\* shares with a
InitCombine ==
    /\ \E x \in CombineShapes :
        LET ra == Build(<<>>, x) IN
        \E rb \in { Build(ra.h, y) : y \in CombineShapes }
                   \cup SharingB(ra.h, ra.v) :
            /\ heap = rb.h
            /\ roots = [a |-> ra.v, b |-> rb.v]
    /\ call = [fn |-> "none"]
    /\ IdleRandom
    /\ IdleQuery

\* The call combine(a, b)
Combine ==
    /\ call.fn = "none"
    /\ LET r == combine(heap, roots.a.v, roots.b.v) IN
        /\ heap' = r.h
        /\ call' = [fn |-> "combine", ret |-> r.v]
    /\ UNCHANGED <<roots, notHeap>>

\* The call merge(a, b)
Merge ==
    /\ call.fn = "none"
    /\ heap' = merge(heap, roots.a.v, roots.b.v)
    /\ call' = [fn |-> "merge", ret |-> Undefined]
    /\ UNCHANGED <<roots, notHeap>>

NextCombine == Combine \/ Merge

SpecCombine == InitCombine /\ [][NextCombine]_vars

(***************************************************************************)
(* Claims about combine                                                    *)
(***************************************************************************)

\* b overlaid on a, for two structures a and b that are objects: a key only
\* in a keeps a's value, a key only in b gets b's, a key in both whose
\* values are both objects gets their overlay, a key in both otherwise b's
RECURSIVE Overlay(_, _)
Overlay(a, b) ==
    Obj([k \in DOMAIN a.v \cup DOMAIN b.v |->
            IF k \notin DOMAIN b.v THEN a.v[k]
            ELSE IF k \notin DOMAIN a.v THEN b.v[k]
            ELSE IF a.v[k].t = "object" /\ b.v[k].t = "object"
            THEN Overlay(a.v[k], b.v[k])
            ELSE b.v[k]])

\* C10: for all mappings a and b, combine(a, b) is b overlaid on a, with
\* exactly the union of the keys of a and b.
C10_CombineOverlay ==
    [][call'.fn = "combine" =>
        Deref(heap', call'.ret)
            = Overlay(Deref(heap, roots.a), Deref(heap, roots.b))]_vars

\* The arrays and objects reachable from the arguments a and b
Inputs == Reach(heap, roots.a) \cup Reach(heap, roots.b)

\* C11: combine(a, b) never mutates its inputs: after the call a, b and
\* every array or object reachable from them hold the same keys and values
\* as before the call.
C11_CombineKeepsInputs ==
    [][call'.fn = "combine" =>
        /\ \A p \in Inputs : heap'[p] = heap[p]
        /\ roots' = roots]_vars

\* combine returned after merging an object of b into the copy of an
\* object of a: the result differs from both a and b
C11_Witness ==
    /\ call.fn = "combine"
    /\ \E k \in DOMAIN heap[roots.b.v].v :
        BothObjects(heap, roots.a.v, roots.b.v, k)
    /\ Deref(heap, call.ret) # Deref(heap, roots.a)
    /\ Deref(heap, call.ret) # Deref(heap, roots.b)

(***************************************************************************)
(* compare                                                                 *)
(***************************************************************************)

\* Line 296 of compare: compare(Object.keys(a).sort(), Object.keys(b).sort())
\* on two objects. The two sorted arrays of strings have the same length
\* and the same string at every index when the objects have the same own
\* keys.
SameKeys(x, y) == DOMAIN x.v = DOMAIN y.v

\* Lines 278-321: compare(a, b). Two arrays are compared by length and
\* element by element, two values isObject accepts by their keys and key
\* by key, every other pair by !==.
RECURSIVE compare(_, _, _)
compare(h, a, b) ==
    LET x == Target(h, a)
        y == Target(h, b)
    IN  IF isArray(x) /\ isArray(y)
        THEN /\ Len(x.v) = Len(y.v)
             /\ \A i \in 0..(Len(x.v) - 1) :
                    compare(h, GetIndex(x.v, i), GetIndex(y.v, i))
        ELSE IF isObject(x) /\ isObject(y)
        THEN /\ SameKeys(x, y)
             /\ \A k \in DOMAIN x.v : compare(h, x.v[k], Get(y.v, k))
        ELSE StrictEquals(a, b)

\* The values compared: primitives, arrays that differ in length and in
\* order, objects that differ in keys and in values, nested ones, and an
\* object with an own property "constructor"
CompareShapes ==
    << CA,
       Undefined,
       List(<<>>),
       List(<<CA, US>>),
       List(<<US, CA>>),
       List(<<CA>>),
       Obj(iso :> CA),
       Obj(iso :> CA @@ name :> US),
       Obj(name :> US @@ iso :> CA),
       Obj(name :> CA),
       Obj(name :> List(<<CA, US>>)),
       Obj(name :> List(<<CA>>)),
       Obj(name :> Obj(constructor :> CA @@ iso :> US)) >>

\* The caller holds two values a and b: two structures built apart, or
\* (for j = 0) twice the same value
InitCompare ==
    /\ \E i \in DOMAIN CompareShapes, j \in {0} \cup DOMAIN CompareShapes :
        LET ra == Build(<<>>, CompareShapes[i])
            rb == IF j = 0 THEN ra ELSE Build(ra.h, CompareShapes[j])
        IN  /\ heap = rb.h
            /\ roots = [a |-> ra.v, b |-> rb.v]
    /\ call = [fn |-> "none"]
    /\ IdleRandom
    /\ IdleQuery

\* The call compare(a, b)
Compare ==
    /\ call.fn = "none"
    /\ call' = [fn |-> "compare", a |-> roots.a, b |-> roots.b,
                ret |-> Bool(compare(heap, roots.a, roots.b))]
    /\ UNCHANGED <<heap, roots, notHeap>>

\* The call compare(b, a)
CompareSwapped ==
    /\ call.fn = "none"
    /\ call' = [fn |-> "compare", a |-> roots.b, b |-> roots.a,
                ret |-> Bool(compare(heap, roots.b, roots.a))]
    /\ UNCHANGED <<heap, roots, notHeap>>

\* The call compare(a, clone(a))
CompareClone ==
    /\ call.fn = "none"
    /\ LET r == clone(heap, roots.a) IN
        /\ heap' = r.h
        /\ call' = [fn |-> "compare", a |-> roots.a, b |-> r.v,
                    ret |-> Bool(compare(r.h, roots.a, r.v))]
    /\ UNCHANGED <<roots, notHeap>>

NextCompare == Compare \/ CompareSwapped \/ CompareClone

SpecCompare == InitCompare /\ [][NextCompare]_vars

(***************************************************************************)
(* Claims about compare                                                    *)
(***************************************************************************)

\* Two structures are structurally equal: two arrays of the same length
\* with equal elements at every index, two objects with the same keys and
\* equal values under every key, and of any other pair two identical
\* primitives
RECURSIVE StructurallyEqual(_, _)
StructurallyEqual(x, y) ==
    IF x.t = "array" /\ y.t = "array"
    THEN /\ Len(x.v) = Len(y.v)
         /\ \A i \in 1..Len(x.v) : StructurallyEqual(x.v[i], y.v[i])
    ELSE IF x.t = "object" /\ y.t = "object"
    THEN /\ DOMAIN x.v = DOMAIN y.v
         /\ \A k \in DOMAIN x.v : StructurallyEqual(x.v[k], y.v[k])
    ELSE x.t = y.t /\ x = y

\* C12: compare(a, b) returns true exactly when a and b are structurally
\* equal; it gives the same answer with its arguments swapped, and true for
\* a value and its clone.
C12_CompareStructural ==
    call.fn = "compare" =>
        /\ call.ret.v
            = StructurallyEqual(Deref(heap, call.a), Deref(heap, call.b))
        /\ call.ret.v = compare(heap, call.b, call.a)

(***************************************************************************)
(* parseQuery, field by field                                              *)
(*                                                                         *)
(* Each call is the first one of a fresh program, so _reQueryPart starts   *)
(* at lastIndex 0, and its query is the query of the call before with one  *)
(* more field at its end: the two results differ by what the new field     *)
(* did.                                                                    *)
(***************************************************************************)

\* The most fields a query holds
MaxFields == 3

\* A field of a query: the name n, whether a bracket follows it and the
\* key k in the bracket, the value as written (raw) and as it reads when
\* percent-decoded (val), and whether the name meets the name grammar
Field(n, b, k, raw, val, ok) ==
    [n |-> n, b |-> b, k |-> k, raw |-> raw, val |-> val, ok |-> ok]

\* The fields the queries are made of: a=1, a[]=2, a[]=%41, a[2]=3,
\* a[0]=4, a[k]=5, a[constructor]=6, toString[]=7, and two whose names
\* fail the grammar, 1=8 and a[=% (its value is a malformed escape)
Fields ==
    { Field(<<"a">>, FALSE, <<>>, <<"1">>, <<"1">>, TRUE),
      Field(<<"a">>, TRUE, <<>>, <<"2">>, <<"2">>, TRUE),
      Field(<<"a">>, TRUE, <<>>, <<"%", "4", "1">>, <<"A">>, TRUE),
      Field(<<"a">>, TRUE, <<"2">>, <<"3">>, <<"3">>, TRUE),
      Field(<<"a">>, TRUE, <<"0">>, <<"4">>, <<"4">>, TRUE),
      Field(<<"a">>, TRUE, <<"k">>, <<"5">>, <<"5">>, TRUE),
      Field(<<"a">>, TRUE, constructor, <<"6">>, <<"6">>, TRUE),
      Field(toString, TRUE, <<>>, <<"7">>, <<"7">>, TRUE),
      Field(<<"1">>, FALSE, <<>>, <<"8">>, <<"8">>, FALSE),
      Field(<<"a", "[">>, FALSE, <<>>, <<"%">>, <<>>, FALSE) }

\* The text of a field in a query
FieldText(f) ==
    f.n \o (IF f.b THEN <<"[">> \o f.k \o <<"]">> ELSE <<>>) \o <<"=">>
        \o f.raw

\* The query q with the field f at its end
WithField(q, f) ==
    IF q = <<>> THEN FieldText(f) ELSE q \o <<"&">> \o FieldText(f)

\* The number of fields of the query q
FieldCount(q) ==
    IF q = <<>> THEN 0
    ELSE 1 + Cardinality({ i \in 1..Len(q) : q[i] = "&" })

\* The program has called parseQuery("")
InitFields ==
    /\ query = <<>>
    /\ lastIndex = parseQuery(<<>>, 0).lastIndex
    /\ queryOut = [t |-> "returned", v |-> Obj(parseQuery(<<>>, 0).v)]
    /\ IdleRandom
    /\ IdleHeap

\* A fresh program calls parseQuery on the query with the field f added
ParseWithField(f) ==
    /\ FieldCount(query) < MaxFields
    /\ LET r == parseQuery(WithField(query, f), 0) IN
        /\ query' = WithField(query, f)
        /\ lastIndex' = r.lastIndex
        /\ queryOut' = IF r.threw THEN [t |-> "threw"]
                       ELSE [t |-> "returned", v |-> Obj(r.v)]
    /\ UNCHANGED notQuery

NextFields == \E f \in Fields : ParseWithField(f)

SpecFields == InitFields /\ [][NextFields]_vars

(***************************************************************************)
(* Claims about the fields of parseQuery                                   *)
(***************************************************************************)

\* The step is the call with the field f added
Added(f) == query' = WithField(query, f)

\* The name n is unset in the result o: no field has stored under it
Unset(o, n) == n \notin DOMAIN o.v

\* The name n holds an array, or an object, in the result o
HoldsArray(o, n) == n \in DOMAIN o.v /\ o.v[n].t = "array"
HoldsMapping(o, n) == n \in DOMAIN o.v /\ o.v[n].t = "object"
HoldsScalar(o, n) == n \in DOMAIN o.v /\ o.v[n].t = "string"

\* The elements of the array under n, none when n is unset
Elements(o, n) == IF Unset(o, n) THEN <<>> ELSE o.v[n].v

\* The result of the call before the step, and of the call of the step
Before == queryOut.v
After == queryOut'.v

\* C13: an append field name[]=v, when name is unset or holds an array,
\* adds the decoded v as the new last element of the array at name, so k
\* such fields for an unset name give the k values in the order written.
C13_AppendInOrder ==
    [][\A f \in Fields :
        (/\ Added(f)
         /\ f.ok /\ f.b /\ f.k = <<>>
         /\ queryOut.t = "returned"
         /\ Unset(Before, f.n) \/ HoldsArray(Before, f.n))
        => /\ queryOut'.t = "returned"
           /\ HoldsArray(After, f.n)
           /\ StructurallyEqual(
                After.v[f.n],
                List(Append(Elements(Before, f.n), Str(f.val))))]_vars

\* The key k is a run of digits, and the index it names
NumericKey(k) == k # <<>> /\ \A i \in 1..Len(k) : k[i] \in Digits
IndexOf(k) == parseInt(k)

\* What the array l holds at the 0-based index j: an element, or a hole
Slot(l, j) == IF j < Len(l) THEN l[j + 1] ELSE Empty

\* The larger of two numbers
Larger(m, n) == IF m > n THEN m ELSE n

\* The entries of the object under n, none when n is unset
Entries(o, n) == IF Unset(o, n) THEN <<>> ELSE o.v[n].v

\* C14, numeric key: a field name[i]=v, when name is unset or holds an
\* array, leaves an array at name whose index i holds the decoded v and
\* whose other indices are unchanged.
C14_NumericKey(f) ==
    (/\ NumericKey(f.k)
     /\ Unset(Before, f.n) \/ HoldsArray(Before, f.n))
    => /\ HoldsArray(After, f.n)
       /\ LET old == Elements(Before, f.n)
              new == After.v[f.n].v
          IN  /\ Len(new) = Larger(Len(old), IndexOf(f.k) + 1)
              /\ \A j \in 0..(Len(new) - 1) :
                    StructurallyEqual(
                        Slot(new, j),
                        IF j = IndexOf(f.k) THEN Str(f.val)
                        ELSE Slot(old, j))

\* C14, other key: a field name[key]=v, when name is unset or holds a
\* mapping, leaves a mapping at name whose entry key holds the decoded v
\* and whose other entries are unchanged.
C14_StringKey(f) ==
    (/\ f.k # <<>> /\ ~NumericKey(f.k)
     /\ Unset(Before, f.n) \/ HoldsMapping(Before, f.n))
    => /\ HoldsMapping(After, f.n)
       /\ LET old == Entries(Before, f.n)
              new == After.v[f.n].v
          IN  /\ DOMAIN new = DOMAIN old \cup {f.k}
              /\ \A k \in DOMAIN new :
                    /\ k \in DOMAIN old \cup {f.k}
                    /\ StructurallyEqual(
                            new[k], IF k = f.k THEN Str(f.val) ELSE old[k])

\* C14: a keyed field on an unset name, or on a name that holds the kind
\* of container its key asks for, stores the decoded value under the key
\* and leaves the rest of the container as it was.
C14_KeyedField ==
    [][\A f \in Fields :
        (Added(f) /\ f.ok /\ f.b /\ queryOut.t = "returned")
        => /\ queryOut'.t = "returned"
           /\ C14_NumericKey(f)
           /\ C14_StringKey(f)]_vars

\* The array l as a mapping keyed by the indices 0..length-1 as strings
Stringified(l) ==
    [k \in { NumberToString(i) : i \in 0..(Len(l) - 1) } |->
        IF Slot(l, IndexOf(k)).t = "empty" THEN Undefined
        ELSE Slot(l, IndexOf(k))]

\* The value x is still held by the object or array y
KeptIn(x, y) == \E k \in DOMAIN y.v : StructurallyEqual(y.v[k], x)

\* C15, an append on a mapping: the value goes under the empty-string key
C15_AppendOnMapping(f) ==
    (f.k = <<>> /\ HoldsMapping(Before, f.n))
    => /\ HoldsMapping(After, f.n)
       /\ StructurallyEqual(
            After.v[f.n], Obj(Put(Before.v[f.n].v, <<>>, Str(f.val))))

\* C15, a non-numeric key on an array: the array becomes a mapping keyed
\* by its indices, and the key is added
C15_KeyOnArray(f) ==
    (f.k # <<>> /\ ~NumericKey(f.k) /\ HoldsArray(Before, f.n))
    => /\ HoldsMapping(After, f.n)
       /\ StructurallyEqual(
            After.v[f.n],
            Obj(Put(Stringified(Before.v[f.n].v), f.k, Str(f.val))))

\* C15, a key on a scalar: the scalar goes under "0" of a mapping, the key
\* is added, and the scalar is still there
C15_KeyOnScalar(f) ==
    (f.k # <<>> /\ HoldsScalar(Before, f.n))
    => /\ HoldsMapping(After, f.n)
       /\ StructurallyEqual(
            After.v[f.n],
            Obj(Put(<<"0">> :> Before.v[f.n], f.k, Str(f.val))))
       /\ KeptIn(Before.v[f.n], After.v[f.n])

\* C15: parseQuery resolves a conflict of types on a name by coercion and
\* never drops the earlier data: an append on a mapping goes under the
\* empty-string key, a non-numeric key on an array turns the array into a
\* mapping keyed by its indices, a key on a scalar moves the scalar under
\* "0" of a new mapping.
C15_Coercion ==
    [][\A f \in Fields :
        (Added(f) /\ f.ok /\ f.b /\ queryOut.t = "returned")
        => /\ queryOut'.t = "returned"
           /\ C15_AppendOnMapping(f)
           /\ C15_KeyOnArray(f)
           /\ C15_KeyOnScalar(f)]_vars

\* The fields of the query q, split at "&"
RECURSIVE SplitFields(_)
SplitFields(q) ==
    IF q = <<>> THEN <<>>
    ELSE IF \A i \in 1..Len(q) : q[i] # "&" THEN <<q>>
    ELSE LET i == CHOOSE j \in 1..Len(q) :
                    q[j] = "&" /\ \A m \in 1..(j - 1) : q[m] # "&"
         IN  <<SubSeq(q, 1, i - 1)>> \o SplitFields(SubSeq(q, i + 1, Len(q)))

\* The texts of the fields whose names fail the grammar
BadTexts == { FieldText(f) : f \in { g \in Fields : ~g.ok } }

IsGoodText(t) == t \notin BadTexts

\* The query q with the fields removed whose names fail the grammar
WithoutBad(q) == JoinFields(SelectSeq(SplitFields(q), IsGoodText))

MaxPairs == 2

\* err[0].split(/\.(.*)/) of a path with a period: the text before the
\* first period and the text after it
FirstPeriod(s) ==
    CHOOSE i \in 1..Len(s) : s[i] = "." /\ \A j \in 1..(i - 1) : s[j] # "."
SplitHead(s) == SubSeq(s, 1, FirstPeriod(s) - 1)
SplitRest(s) == SubSeq(s, FirstPeriod(s) + 1, Len(s))

\* The ! of a value read from oRet: undefined and the empty string are
\* falsy; a non-empty string, an array and a function are truthy
Falsy(x) == x.t = "undefined" \/ (x.t = "string" /\ x.v = "")

\* Lines 1204-1206: the value of a flat field, "missing" when it is
\* "is not a string"
LeafValue(v) == IF v = "is not a string" THEN "missing" ELSE v

\* Lines 1183-1208: the first loop, from the pair i on, with the object o
\* built so far. A path with a period is added to the array under its
\* head, which raises TypeError when what the head holds is not an array
\* and has no push; a flat field is stored, and its pair in the caller's
\* list is written when the value is "is not a string".
RECURSIVE GroupPaths(_, _, _)
GroupPaths(paths, i, o) ==
    IF i > Len(paths) THEN [threw |-> FALSE, o |-> o, paths |-> paths]
    ELSE
        LET err == paths[i] IN
        IF Includes(err[1], <<".">>)
        THEN
            LET head == SplitHead(err[1])
                o2 == IF Falsy(Get(o, head)) THEN Put(o, head, List(<<>>))
                      ELSE o
                held == Get(o2, head)
            IN  IF held.t # "array"
                THEN [threw |-> TRUE, o |-> o2, paths |-> paths]
                ELSE GroupPaths(
                        paths, i + 1,
                        Put(o2, head,
                            List(Append(held.v,
                                        <<SplitRest(err[1]), err[2]>>))))
        ELSE GroupPaths([paths EXCEPT ![i][2] = LeafValue(err[2])], i + 1,
                        Put(o, err[1], Str(LeafValue(err[2]))))

\* Lines 1174-1219: pathToTree(paths). The result tells whether the call
\* raised, the tree returned, and the caller's list after the call.
RECURSIVE pathToTree(_), TreeOfGroups(_, _)
pathToTree(paths) ==
    LET g == GroupPaths(paths, 1, <<>>) IN
    IF g.threw THEN [threw |-> TRUE, v |-> Undefined, paths |-> g.paths]
    ELSE LET r == TreeOfGroups(g.o, DOMAIN g.o) IN
         [threw |-> r.threw, v |-> IF r.threw THEN Undefined ELSE Obj(r.o),
          paths |-> g.paths]

\* Lines 1208-1216: the second loop, which replaces every array of pairs
\* by the tree of those pairs
TreeOfGroups(o, keys) ==
    IF keys = {} THEN [threw |-> FALSE, o |-> o]
    ELSE
        LET k == CHOOSE x \in keys : TRUE IN
        IF o[k].t = "array"
        THEN LET r == pathToTree(o[k].v) IN
             IF r.threw THEN [threw |-> TRUE, o |-> o]
             ELSE TreeOfGroups(Put(o, k, r.v), keys \ {k})
        ELSE TreeOfGroups(o, keys \ {k})

\* The paths of the pairs: flat fields, paths of two and three segments,
\* one with an empty last segment and one whose head is a name every
\* object inherits
TreePaths ==
    { <<"a">>, <<"b">>,
      <<"a", ".", "b">>, <<"a", ".", "c">>, <<"b", ".">>,
      <<"a", ".", "b", ".", "c">>,
      toString \o <<".", "a">> }

\* The values of the pairs
TreeValues == {"missing", "invalid", "is not a string", ""}

\* The caller holds a list of pairs
InitTree ==
    /\ \E n \in 0..MaxPairs :
        \E l \in [1..n -> TreePaths \X TreeValues] :
            roots = [paths |-> l]
    /\ heap = <<>>
    /\ call = [fn |-> "none"]
    /\ IdleRandom
    /\ IdleQuery

\* The call pathToTree(paths)
PathToTree ==
    /\ call.fn = "none"
    /\ LET r == pathToTree(roots.paths) IN
        /\ roots' = [paths |-> r.paths]
        /\ call' = [fn |-> "pathToTree", paths |-> roots.paths,
                    threw |-> r.threw, ret |-> r.v]
    /\ UNCHANGED <<heap, notHeap>>

NextTree == PathToTree

SpecTree == InitTree /\ [][NextTree]_vars

(***************************************************************************)
(* Claims about pathToTree                                                 *)
(***************************************************************************)

\* The segments of a path, split at every period
RECURSIVE Segments(_)
Segments(p) ==
    IF \A i \in 1..Len(p) : p[i] # "." THEN <<p>>
    ELSE <<SplitHead(p)>> \o Segments(SplitRest(p))

\* The path p followed by a period starts the path q
DottedPrefix(p, q) ==
    /\ Len(q) > Len(p)
    /\ SubSeq(q, 1, Len(p) + 1) = p \o <<".">>

\* The paths of the list are distinct and none is a dotted prefix of
\* another
Separate(l) ==
    \A i, j \in 1..Len(l) :
        i # j => l[i][1] # l[j][1] /\ ~DottedPrefix(l[i][1], l[j][1])

\* What following the segments s from the tree t reaches
RECURSIVE Follow(_, _)
Follow(t, s) ==
    IF s = <<>> THEN t
    ELSE IF t.t = "object" /\ Head(s) \in DOMAIN t.v
    THEN Follow(t.v[Head(s)], Tail(s))
    ELSE Undefined

\* The leaves of the tree t, each by the segments that lead to it
RECURSIVE Leaves(_)
Leaves(t) ==
    IF t.t # "object" THEN {<<>>}
    ELSE UNION { { <<k>> \o s : s \in Leaves(t.v[k]) } : k \in DOMAIN t.v }

\* The value that the pair's leaf is to hold
Expected(v) == IF v = "is not a string" THEN "missing" ELSE v

\* C17: for a list of pairs with distinct paths of which none is a dotted
\* prefix of another, pathToTree returns a tree in which the segments of
\* each path lead to that pair's value ("missing" for "is not a string"),
\* and which has no other leaves.
C17_TreeHoldsPairs ==
    (call.fn = "pathToTree" /\ Separate(call.paths))
    => /\ ~call.threw
       /\ \A i \in 1..Len(call.paths) :
            LET leaf == Follow(call.ret, Segments(call.paths[i][1])) IN
            /\ leaf.t = "string"
            /\ leaf.v = Expected(call.paths[i][2])
       /\ Leaves(call.ret)
            = { Segments(call.paths[i][1]) : i \in 1..Len(call.paths) }

(***************************************************************************)
(* afindi and afindo                                                       *)
(***************************************************************************)

\* The call afindi(a, k, v)
Afindi(k, v) ==
    /\ call.fn = "none"
    /\ call' = [fn |-> "afindi", k |-> k, v |-> v,
                ret |-> Num(afindi(heap, roots.a.v, k, v))]
    /\ UNCHANGED <<heap, roots, notHeap>>

\* The call afindo(a, k, v)
Afindo(k, v) ==
    /\ call.fn = "none"
    /\ call' = [fn |-> "afindo", k |-> k, v |-> v,
                ret |-> afindo(heap, roots.a.v, k, v)]
    /\ UNCHANGED <<heap, roots, notHeap>>

NextSearch ==
    \E k \in FindKeys, v \in FindValues : Afindi(k, v) \/ Afindo(k, v)

\* The caller holds an array `a` of objects, as for the arrayFind functions
SpecSearch == InitFind /\ [][NextSearch]_vars

(***************************************************************************)
(* Claims about afindi and afindo                                          *)
(***************************************************************************)

\* The indices of the elements of `a` whose field k is strictly equal to v
Hits(k, v) ==
    { i \in 0..(Len(heap[roots.a.v].v) - 1) :
        StrictEquals(Prop(heap, heap[roots.a.v].v[i + 1], k), v) }

\* C18: afindi(a, k, v) returns the smallest index i with a[i][k] === v,
\* and -1 exactly when there is none; afindo(a, k, v) returns the element
\* at that index, and null exactly when afindi returns -1.
C18_FirstMatch ==
    /\ call.fn = "afindi" =>
        /\ call.ret.v = -1 <=> Hits(call.k, call.v) = {}
        /\ call.ret.v # -1 =>
            /\ call.ret.v \in Hits(call.k, call.v)
            /\ \A j \in Hits(call.k, call.v) : call.ret.v <= j
    /\ call.fn = "afindo" =>
        LET i == afindi(heap, roots.a.v, call.k, call.v) IN
        /\ call.ret.t = "null" <=> i = -1
        /\ i # -1 => /\ call.ret.t = "ref"
                     /\ call.ret = heap[roots.a.v].v[i + 1]

\* afindi was called on an array with two matches
C18_Witness ==
    /\ call.fn = "afindi"
    /\ Cardinality(Hits(call.k, call.v)) = 2
    /\ call.ret.v = 0

(***************************************************************************)
(* nicePhone                                                               *)
(***************************************************************************)

\* Mutant of MatchPhone: the pattern without its leading \+?
MatchPhoneNoPlus(val) ==
    LET ten(s) == Len(s) = 10 /\ \A i \in 1..10 : s[i] \in Digits
        withOne == val # <<>> /\ val[1] = "1" /\ ten(Tail(val))
        d == IF withOne THEN Tail(val) ELSE val
    IN  [matched |-> withOne \/ ten(val), d |-> d]

\* Line 16: _rePhone.exec(val), for /^\+?1?(\d{3})(\d{3})(\d{4})$/. \+?
\* takes a leading "+"; 1? takes a "1" when ten digits follow it to the
\* end, else nothing, and then ten digits must reach the end. d holds the
\* ten digits of the three groups.
MatchPhone(val) ==
    LET ten(s) == Len(s) = 10 /\ \A i \in 1..10 : s[i] \in Digits
        afterPlus == IF val # <<>> /\ val[1] = "+" THEN Tail(val) ELSE val
        withOne == /\ afterPlus # <<>>
                   /\ afterPlus[1] = "1"
                   /\ ten(Tail(afterPlus))
        d == IF withOne THEN Tail(afterPlus) ELSE afterPlus
    IN  [matched |-> withOne \/ ten(afterPlus), d |-> d]

\* Lines 649-655: nicePhone(val)
nicePhone(val) ==
    LET lMatch == MatchPhone(val) IN
    IF ~lMatch.matched THEN val
    ELSE <<"+", "1", " ", "(">> \o SubSeq(lMatch.d, 1, 3) \o <<")", " ">>
            \o SubSeq(lMatch.d, 4, 6) \o <<"-">> \o SubSeq(lMatch.d, 7, 10)

\* The values passed to nicePhone: what comes before the digits, the
\* digits (ten, nine, eleven, ten with a leading 1, with a letter or a
\* blank among them, none), and what comes after
PhoneStarts ==
    { <<>>, <<"+">>, <<"1">>, <<"+", "1">>, <<"1", "1">>, <<"+", "+">>,
      <<"1", "+">>, <<"a">>, <<" ">> }
PhoneDigits ==
    { <<"2", "3", "4", "5", "6", "7", "8", "9", "0", "1">>,
      <<"2", "3", "4", "5", "6", "7", "8", "9", "0">>,
      <<"2", "3", "4", "5", "6", "7", "8", "9", "0", "1", "2">>,
      <<"1", "2", "3", "4", "5", "6", "7", "8", "9", "0">>,
      <<"2", "3", "4", "5", "6", "7", "8", "9", "0", "a">>,
      <<"2", "3", "4", " ", "5", "6", "7", "8", "9", "0", "1">>,
      <<>> }
PhoneEnds == { <<>>, <<"LF">>, <<"x">>, <<"5">> }

\* The caller holds a string val
InitPhone ==
    /\ \E s \in PhoneStarts, d \in PhoneDigits, e \in PhoneEnds :
        roots = [val |-> s \o d \o e]
    /\ heap = <<>>
    /\ call = [fn |-> "none"]
    /\ IdleRandom
    /\ IdleQuery

\* The call nicePhone(val)
NicePhone ==
    /\ call.fn = "none"
    /\ call' = [fn |-> "nicePhone", ret |-> nicePhone(roots.val)]
    /\ UNCHANGED <<heap, roots, notHeap>>

NextPhone == NicePhone

SpecPhone == InitPhone /\ [][NextPhone]_vars

(***************************************************************************)
(* Claims about nicePhone                                                  *)
(***************************************************************************)

\* The last ten characters of s
LastTen(s) == SubSeq(s, Len(s) - 9, Len(s))

\* s is an optional "+", an optional "1" and then exactly ten digits
IsPhone(s) ==
    /\ Len(s) >= 10
    /\ \A i \in 1..10 : LastTen(s)[i] \in Digits
    /\ SubSeq(s, 1, Len(s) - 10) \in { <<>>, <<"+">>, <<"1">>, <<"+", "1">> }

\* C19: nicePhone has two outcomes only: for an optional "+", an optional
\* "1" and then exactly ten digits AAABBBCCCC it returns
\* "+1 (AAA) BBB-CCCC", and every other input it returns unchanged.
C19_NicePhone ==
    call.fn = "nicePhone" =>
        IF IsPhone(roots.val)
        THEN LET d == LastTen(roots.val) IN
             call.ret = <<"+", "1", " ", "(", d[1], d[2], d[3], ")", " ",
                          d[4], d[5], d[6], "-", d[7], d[8], d[9], d[10]>>
        ELSE call.ret = roots.val

\* nicePhone formatted a number written with "+1" before its ten digits
C19_Witness ==
    /\ call.fn = "nicePhone"
    /\ Len(roots.val) = 12
    /\ roots.val[1] = "+"
    /\ IsPhone(roots.val)
    /\ call.ret # roots.val

(***************************************************************************)
(* min and max                                                             *)
(*                                                                         *)
(* The arrays here hold numbers and strings themselves, since min and max  *)
(* only read them.                                                         *)
(***************************************************************************)

\* The most elements of an array passed to min and max
MaxItems == 3

\* The number NaN
NaN == [t |-> "nan"]

\* A call that raised, and one that returned x
Raised == [threw |-> TRUE, v |-> Undefined]
Returned(x) == [threw |-> FALSE, v |-> x]

\* The < of two strings: by their first differing character code, a
\* proper prefix first. normalize('NFD') leaves a string of ASCII
\* characters as it is.
CharCode(c) == CHOOSE n \in 0..127 : Ascii[n + 1] = c
RECURSIVE StringLess(_, _)
StringLess(s, t) ==
    IF t = <<>> THEN FALSE
    ELSE IF s = <<>> THEN TRUE
    ELSE IF s[1] # t[1] THEN CharCode(s[1]) < CharCode(t[1])
    ELSE StringLess(Tail(s), Tail(t))

\* Math.max(...a) of an array of numbers: every element is an argument
MathMaxSpread(l) ==
    Num(CHOOSE x \in { l[i].v : i \in 1..Len(l) } :
            \A i \in 1..Len(l) : x >= l[i].v)

\* Math.min(a) of an array of numbers: the array is the one argument, and
\* its conversion to a number reads its elements joined by ",", which is
\* the element for an array of one and not a number for a longer one
MathMinOfArray(l) == IF Len(l) = 1 THEN l[1] ELSE NaN

\* Lines 539-543 of max: the loop over the strings after the first
RECURSIVE maxString(_, _, _)
maxString(l, i, sRet) ==
    IF i > Len(l) THEN sRet
    ELSE IF StringLess(sRet.v, l[i].v) THEN maxString(l, i + 1, l[i])
    ELSE maxString(l, i + 1, sRet)

\* Lines 621-625 of min: the loop over the strings after the first
RECURSIVE minString(_, _, _)
minString(l, i, sRet) ==
    IF i > Len(l) THEN sRet
    ELSE IF StringLess(l[i].v, sRet.v) THEN minString(l, i + 1, l[i])
    ELSE minString(l, i + 1, sRet)

\* Lines 510-554: max(a)
max(a) ==
    IF ~isArray(a) THEN Raised
    ELSE IF Len(a.v) = 0 THEN Returned(Null)
    ELSE IF a.v[1].t = "number" THEN Returned(MathMaxSpread(a.v))
    ELSE IF a.v[1].t = "string" THEN Returned(maxString(a.v, 2, a.v[1]))
    ELSE Raised

\* Mutant of min: null in place of an error
minNull(a) ==
    IF ~isArray(a) THEN Returned(Null)
    ELSE IF Len(a.v) = 0 THEN Returned(Null)
    ELSE IF a.v[1].t = "number" THEN Returned(MathMinOfArray(a.v))
    ELSE IF a.v[1].t = "string" THEN Returned(minString(a.v, 2, a.v[1]))
    ELSE Returned(Null)

\* Lines 595-636: min(a)
min(a) ==
    IF ~isArray(a) THEN Raised
    ELSE IF Len(a.v) = 0 THEN Returned(Null)
    ELSE IF a.v[1].t = "number" THEN Returned(MathMinOfArray(a.v))
    ELSE IF a.v[1].t = "string" THEN Returned(minString(a.v, 2, a.v[1]))
    ELSE Raised

\* The numbers and the strings of the arrays
ItemNumbers == { Num(n) : n \in {-1, 0, 2} }
ItemStrings == { Str(s) : s \in { <<"a">>, <<"B">>, <<"a", "b">> } }

\* The values passed to min and max: arrays of numbers, arrays of strings,
\* arrays that start with undefined and with null, and values that are no
\* arrays
InitMinMax ==
    /\ \/ \E n \in 0..MaxItems : \E l \in [1..n -> ItemNumbers] :
            roots = [a |-> List(l)]
       \/ \E n \in 1..MaxItems : \E l \in [1..n -> ItemStrings] :
            roots = [a |-> List(l)]
       \/ roots = [a |-> List(<<Undefined>>)]
       \/ roots = [a |-> List(<<Null, Num(2)>>)]
       \/ roots = [a |-> Num(2)]
       \/ roots = [a |-> Str(<<"a", "b">>)]
       \/ roots = [a |-> Null]
       \/ roots = [a |-> Undefined]
    /\ heap = <<>>
    /\ call = [fn |-> "none"]
    /\ IdleRandom
    /\ IdleQuery

\* The call min(a)
Min ==
    /\ call.fn = "none"
    /\ call' = [fn |-> "min", threw |-> min(roots.a).threw,
                ret |-> min(roots.a).v]
    /\ UNCHANGED <<heap, roots, notHeap>>

\* The call max(a)
Max ==
    /\ call.fn = "none"
    /\ call' = [fn |-> "max", threw |-> max(roots.a).threw,
                ret |-> max(roots.a).v]
    /\ UNCHANGED <<heap, roots, notHeap>>

NextMinMax == Min \/ Max

SpecMinMax == InitMinMax /\ [][NextMinMax]_vars

(***************************************************************************)
(* Claims about min and max                                                *)
(***************************************************************************)

\* a is a non-empty array of numbers
NumberArray(a) ==
    /\ a.t = "array"
    /\ Len(a.v) > 0
    /\ \A i \in 1..Len(a.v) : a.v[i].t = "number"

\* The call returned an element of the array
ReturnedElement ==
    /\ ~call.threw
    /\ call.ret.t = "number"
    /\ \E i \in 1..Len(roots.a.v) : roots.a.v[i].v = call.ret.v

\* C20: for every non-empty array a of numbers, min(a) returns the
\* smallest element of a and max(a) the largest.
C20_MinMaxOfNumbers ==
    /\ (call.fn = "min" /\ NumberArray(roots.a)) =>
        /\ ReturnedElement
        /\ \A i \in 1..Len(roots.a.v) : call.ret.v <= roots.a.v[i].v
    /\ (call.fn = "max" /\ NumberArray(roots.a)) =>
        /\ ReturnedElement
        /\ \A i \in 1..Len(roots.a.v) : call.ret.v >= roots.a.v[i].v

(***************************************************************************)
(* ashift                                                                  *)
(***************************************************************************)

\* The most elements of an array passed to ashift
MaxShift == 3

\* Array.prototype.splice(start, 0, item) on the elements l: a negative
\* start counts from the end and stops at 0, a start beyond the end is the
\* end
SpliceInsert(l, start, item) ==
    LET at == IF start < 0
              THEN (IF Len(l) + start < 0 THEN 0 ELSE Len(l) + start)
              ELSE (IF start > Len(l) THEN Len(l) ELSE start)
    IN  SubSeq(l, 1, at) \o <<item>> \o SubSeq(l, at + 1, Len(l))

\* Mutant of ashift: the elements at from and to change places
ashiftSwap(l, from, to) ==
    IF from >= 0 /\ from < Len(l) /\ to >= 0 /\ to < Len(l)
    THEN [l EXCEPT ![from + 1] = l[to + 1], ![to + 1] = l[from + 1]]
    ELSE l

\* Lines 200-205: ashift(arr, from, to), on the elements l of arr; the
\* result is the elements of arr after the call
ashift(l, from, to) ==
    IF from >= 0 /\ from < Len(l)
    THEN SpliceInsert(Splice1(l, from), to, l[from + 1])
    ELSE l

\* The elements of the arrays shifted
ShiftItems == { Num(n) : n \in 1..MaxShift }

\* The caller holds an array arr
InitShift ==
    /\ \E n \in 0..MaxShift : \E l \in [1..n -> ShiftItems] :
        /\ heap = <<List(l)>>
        /\ roots = [arr |-> Ref(1)]
    /\ call = [fn |-> "none"]
    /\ IdleRandom
    /\ IdleQuery

\* The call ashift(arr, from, to)
Ashift(from, to) ==
    /\ call.fn = "none"
    /\ heap' = [heap EXCEPT ![roots.arr.v] =
                    List(ashift(heap[roots.arr.v].v, from, to))]
    /\ call' = [fn |-> "ashift", from |-> from, to |-> to]
    /\ UNCHANGED <<roots, notHeap>>

NextShift == \E from, to \in (-2)..(MaxShift + 1) : Ashift(from, to)

SpecShift == InitShift /\ [][NextShift]_vars

(***************************************************************************)
(* Claims about ashift                                                     *)
(***************************************************************************)

\* The elements l without the one at the 1-based position p
Without(l, p) ==
    [i \in 1..(Len(l) - 1) |-> IF i < p THEN l[i] ELSE l[i + 1]]

\* C21: ashift(arr, from, to) with from in bounds moves the element at
\* from so that it ends at to when to is in bounds; for any to the array
\* keeps its length and its elements, and the other elements their
\* relative order. With from out of bounds the array is unchanged.
C21_ShiftMoves ==
    [][call'.fn = "ashift" =>
        LET old == heap[roots.arr.v].v
            new == heap'[roots.arr.v].v
            from == call'.from
            to == call'.to
        IN  IF from >= 0 /\ from < Len(old)
            THEN /\ Len(new) = Len(old)
                 /\ (to >= 0 /\ to < Len(old)) => new[to + 1] = old[from + 1]
                 /\ \E p \in 1..Len(new) :
                        /\ new[p] = old[from + 1]
                        /\ Without(new, p) = Without(old, from + 1)
            ELSE new = old]_vars

\* ashift moved the first of three different elements to the end
C21_Witness ==
    /\ call.fn = "ashift"
    /\ call.from = 0
    /\ call.to = 2
    /\ heap[roots.arr.v].v = <<Num(2), Num(3), Num(1)>>

\* C22: max and min raise when the argument is not an array and when the
\* first element of a non-empty array is neither a number nor a string;
\* for an empty array they return null without raising.
C22_MinMaxErrors ==
    call.fn \in {"min", "max"} =>
        /\ roots.a.t # "array" => call.threw
        /\ (roots.a.t = "array" /\ Len(roots.a.v) = 0) =>
            ~call.threw /\ call.ret.t = "null"
        /\ (/\ roots.a.t = "array"
            /\ Len(roots.a.v) > 0
            /\ roots.a.v[1].t \notin {"number", "string"}) => call.threw

\* min raised on an array whose first element is null
C22_Witness ==
    /\ call.fn = "min"
    /\ call.threw
    /\ roots.a.t = "array"
    /\ Len(roots.a.v) = 2
    /\ roots.a.v[1].t = "null"

(***************************************************************************)
(* divmod                                                                  *)
(***************************************************************************)

\* The largest absolute value of an operand of divmod
MaxOperand == 7

Abs(n) == IF n < 0 THEN -n ELSE n

\* ~~(x / y) for integers x and y # 0: the quotient with its fraction cut
\* off, so rounded toward zero. The quotients here are far within the 32
\* bits that ~~ keeps.
TruncatedQuotient(x, y) ==
    IF (x >= 0) = (y > 0) THEN Abs(x) \div Abs(y)
    ELSE -(Abs(x) \div Abs(y))

\* x % y for integers x and y # 0: the remainder that goes with the
\* truncated quotient, so zero or of the sign of x
Remainder(x, y) == x - y * TruncatedQuotient(x, y)

\* Lines 336-343: divmod(x, y). With y = 0 the quotient x / 0 is an
\* infinity or NaN, which ~~ turns into 0, and x % 0 is NaN.
divmod(x, y) ==
    IF y = 0 THEN <<Num(0), NaN>>
    ELSE <<Num(TruncatedQuotient(x, y)), Num(Remainder(x, y))>>

\* The caller holds two integers x and y
InitDivmod ==
    /\ \E x, y \in (-MaxOperand)..MaxOperand : roots = [x |-> x, y |-> y]
    /\ heap = <<>>
    /\ call = [fn |-> "none"]
    /\ IdleRandom
    /\ IdleQuery

\* The call divmod(x, y)
Divmod ==
    /\ call.fn = "none"
    /\ call' = [fn |-> "divmod", ret |-> divmod(roots.x, roots.y)]
    /\ UNCHANGED <<heap, roots, notHeap>>

NextDivmod == Divmod

SpecDivmod == InitDivmod /\ [][NextDivmod]_vars

(***************************************************************************)
(* Claims about divmod                                                     *)
(***************************************************************************)

\* floor(x / y) for integers x and y # 0
Floor(x, y) == IF y > 0 THEN x \div y ELSE (-x) \div (-y)

\* C23: for all integers x and nonzero y, divmod(x, y) is the pair [q, r]
\* with q = floor(x / y) and r = x - q*y, where r is zero or has the sign
\* of y, as Python's divmod.
C23_DivmodFloors ==
    (call.fn = "divmod" /\ roots.y # 0) =>
        LET q == call.ret[1]
            r == call.ret[2]
        IN  /\ q.t = "number" /\ r.t = "number"
            /\ q.v = Floor(roots.x, roots.y)
            /\ r.v = roots.x - q.v * roots.y
            /\ r.v = 0 \/ (r.v > 0) = (roots.y > 0)

(***************************************************************************)
(* isInteger                                                               *)
(***************************************************************************)

\* The largest of the small low halves of a number passed to isInteger
MaxLow == 2

\* A number of any magnitude, written in two halves of 16 bits: its value
\* is hi * 2^16 + lo, plus one half when half is TRUE (a number with a
\* fraction)
Wide(hi, lo, half) == [t |-> "number", hi |-> hi, lo |-> lo, half |-> half]

\* The integer part of a number: the fraction is cut off toward zero
Truncate(m) ==
    IF ~m.half \/ m.hi >= 0 THEN Wide(m.hi, m.lo, FALSE)
    ELSE IF m.lo + 1 = 2^16 THEN Wide(m.hi + 1, 0, FALSE)
    ELSE Wide(m.hi, m.lo + 1, FALSE)

\* m|0 for a number: the integer part, of which the low 32 bits are kept
\* and read as a signed integer
ToInt32(m) ==
    LET i == Truncate(m)
    IN  Wide(((i.hi + 2^15) % 2^16) - 2^15, i.lo, FALSE)

\* Lines 408-412: isInteger(m). m === +m holds for the numbers other than
\* NaN only.
isInteger(m) == m.t = "number" /\ m = ToInt32(m)

\* The high halves of the numbers: around zero and around 2^31 and 2^32
Highs ==
    { -(2^15) - 1, -(2^15), -2, -1, 0, 1, 2,
      2^15 - 1, 2^15, 2^15 + 1, 2^16 }

\* The caller holds a number, or a value of another type
InitInteger ==
    /\ \/ \E hi \in Highs, lo \in (0..MaxLow) \cup {2^16 - 1},
             half \in BOOLEAN : roots = [m |-> Wide(hi, lo, half)]
       \/ \E m \in { Str(<<"1">>), Str(<<>>), Null, Undefined, NaN,
                     Bool(TRUE), Fn("f") } : roots = [m |-> m]
       \/ roots = [m |-> List(<<>>)]
       \/ roots = [m |-> Obj(<<>>)]
    /\ heap = <<>>
    /\ call = [fn |-> "none"]
    /\ IdleRandom
    /\ IdleQuery

\* The call isInteger(m)
IsInteger ==
    /\ call.fn = "none"
    /\ call' = [fn |-> "isInteger", ret |-> isInteger(roots.m)]
    /\ UNCHANGED <<heap, roots, notHeap>>

NextInteger == IsInteger

SpecInteger == InitInteger /\ [][NextInteger]_vars

(***************************************************************************)
(* Claims about isInteger                                                  *)
(***************************************************************************)

\* C24: isInteger(m) is true exactly when m is a number whose value is an
\* integer, of whatever magnitude, and false for numbers with a fraction,
\* strings and values of other types.
C24_IsInteger ==
    call.fn = "isInteger" =>
        (call.ret <=> (roots.m.t = "number" /\ ~roots.m.half))

(***************************************************************************)
(* merge, called several times                                             *)
(***************************************************************************)

\* The most calls of merge in a row
MaxMerges == 2

\* The caller holds three objects x, y and z that share nothing
InitMerges ==
    /\ \E sx, sy, sz \in CombineShapes :
        LET rx == Build(<<>>, sx)
            ry == Build(rx.h, sy)
            rz == Build(ry.h, sz)
        IN  /\ heap = rz.h
            /\ roots = [x |-> rx.v, y |-> ry.v, z |-> rz.v]
    /\ call = [fn |-> "none", count |-> 0, sources |-> {}]
    /\ IdleRandom
    /\ IdleQuery

\* The call merge(t, s) on two of the caller's objects; sources collects
\* the variables passed as the source so far
MergeInto(t, s) ==
    /\ call.count < MaxMerges
    /\ t # s
    /\ heap' = merge(heap, roots[t].v, roots[s].v)
    /\ call' = [fn |-> "merge", count |-> call.count + 1, target |-> t,
                source |-> s, sources |-> call.sources \cup {s}]
    /\ UNCHANGED <<roots, notHeap>>

NextMerges == \E t, s \in {"x", "y", "z"} : MergeInto(t, s)

SpecMerges == InitMerges /\ [][NextMerges]_vars

(***************************************************************************)
(* Claims about sequences of merge                                         *)
(***************************************************************************)

\* C25: in a sequence of merge calls on objects that start out disjoint,
\* merge(target, source) changes only the target: an object passed as the
\* source of this or of an earlier call keeps its keys and values in every
\* merge into another target.
C25_MergeKeepsSources ==
    [][call'.fn = "merge" =>
        \A s \in call'.sources \ {call'.target} :
            StructurallyEqual(Deref(heap', roots[s]),
                              Deref(heap, roots[s]))]_vars

(***************************************************************************)
(* Claims about what combine returns                                       *)
(***************************************************************************)

\* C26: the object returned by combine(a, b) is independently owned: no
\* array or object reachable from it is reachable from a or from b, so no
\* later mutation of the result changes a or b.
C26_CombineOwnsResult ==
    call.fn = "combine" => Reach(heap, call.ret) \cap Inputs = {}

(***************************************************************************)
(* combine next to clone and merge                                         *)
(***************************************************************************)

\* After r = combine(a, b), the call c = clone(a)
CloneOfA ==
    /\ call.fn = "combine"
    /\ LET o == clone(heap, roots.a) IN
        /\ heap' = o.h
        /\ roots' = [a |-> roots.a, b |-> roots.b, r |-> call.ret,
                     c |-> o.v]
    /\ call' = [fn |-> "clone", count |-> 0]
    /\ UNCHANGED notHeap

\* The call merge(c, b), made more than once; count is the number of calls
\* so far
MergeIntoClone ==
    /\ call.fn \in {"clone", "merge"}
    /\ call.count < MaxMerges
    /\ heap' = merge(heap, roots.c.v, roots.b.v)
    /\ call' = [fn |-> "merge", count |-> call.count + 1]
    /\ UNCHANGED <<roots, notHeap>>

NextOverlay == Combine \/ CloneOfA \/ MergeIntoClone

SpecOverlay == InitCombine /\ [][NextOverlay]_vars

(***************************************************************************)
(* Claims about combine and merge together                                 *)
(***************************************************************************)

\* C27: combine and merge are the same overlay: for all mappings a and b
\* the result r of combine(a, b) is structurally equal to c after
\* c = clone(a); merge(c, b), and a further merge(c, b) leaves c as it was.
C27_SameOverlay ==
    [][call'.fn = "merge" =>
        /\ call'.count = 1 =>
            StructurallyEqual(Deref(heap', roots.r), Deref(heap', roots.c))
        /\ call'.count > 1 =>
            /\ heap' = heap
            /\ StructurallyEqual(Deref(heap', roots.r),
                                 Deref(heap', roots.c))]_vars

\* merge(c, b) ran twice where a and b hold an object under the same key,
\* and c is now neither a nor b
C27_Witness ==
    /\ call.fn = "merge"
    /\ call.count > 1
    /\ \E k \in DOMAIN heap[roots.b.v].v :
        BothObjects(heap, roots.a.v, roots.b.v, k)
    /\ ~StructurallyEqual(Deref(heap, roots.c), Deref(heap, roots.a))
    /\ ~StructurallyEqual(Deref(heap, roots.c), Deref(heap, roots.b))

(***************************************************************************)
(* Claims about the kind of value a name of parseQuery holds               *)
(***************************************************************************)

\* C28, a bracketed field on a mapping: the name still holds a mapping,
\* with the one entry of the field's key (the empty key for an append)
\* added or overwritten
C28_MappingStays(f) ==
    (f.b /\ HoldsMapping(Before, f.n))
    => /\ HoldsMapping(After, f.n)
       /\ StructurallyEqual(
            After.v[f.n], Obj(Put(Before.v[f.n].v, f.k, Str(f.val))))

\* C28, a bracketed field on an array: the name holds no scalar after it
C28_ArrayStays(f) ==
    (f.b /\ HoldsArray(Before, f.n)) => ~HoldsScalar(After, f.n)

\* C28, an unbracketed field on an array or a mapping: the name holds the
\* field's value, a scalar
C28_ScalarReplaces(f) ==
    (~f.b /\ (HoldsArray(Before, f.n) \/ HoldsMapping(Before, f.n)))
    => /\ HoldsScalar(After, f.n)
       /\ After.v[f.n] = Str(f.val)

\* C28: per name, a mapping is absorbing under bracketed fields: once a
\* name holds a mapping, every bracketed field for it (append, numeric or
\* other key) leaves it a mapping and adds or overwrites exactly one
\* entry; an array never becomes a scalar; only an unbracketed field
\* name=v replaces an array or a mapping, by a scalar.
C28_MappingAbsorbing ==
    [][\A f \in Fields :
        (Added(f) /\ f.ok /\ queryOut.t = "returned")
        => /\ queryOut'.t = "returned"
           /\ C28_MappingStays(f)
           /\ C28_ArrayStays(f)
           /\ C28_ScalarReplaces(f)]_vars

(***************************************************************************)
(* Claims about pathToTree and its list of pairs                           *)
(***************************************************************************)

\* C29: pathToTree leaves the caller's list of pairs unchanged: after the
\* call every pair holds the path and the value it held before, also a
\* pair whose value is "is not a string".
C29_PairsUnchanged ==
    call.fn = "pathToTree" => roots.paths = call.paths

\* The path p has no period
Flat(p) == \A i \in 1..Len(p) : p[i] # "."

\* The values at the leaves of the tree t
RECURSIVE LeafValues(_)
LeafValues(t) ==
    IF t.t = "string" THEN {t.v}
    ELSE IF t.t = "object"
    THEN UNION { LeafValues(t.v[k]) : k \in DOMAIN t.v }
    ELSE {}

\* C30: pathToTree returns a tree and does not raise for every list of
\* pairs of strings; where one pair names a flat field and the path of
\* another has that field as its head segment, in either order, the tree
\* holds the values of both.
C30_CollisionsKept ==
    call.fn = "pathToTree" =>
        /\ ~call.threw
        /\ \A i, j \in 1..Len(call.paths) :
            (/\ Flat(call.paths[i][1])
             /\ DottedPrefix(call.paths[i][1], call.paths[j][1]))
            => /\ Expected(call.paths[i][2]) \in LeafValues(call.ret)
               /\ Expected(call.paths[j][2]) \in LeafValues(call.ret)

=============================================================================
